---------------------------- MODULE Spec2Model ----------------------------
(***************************************************************************)
(* Model of the financial engine of the Multi-Goal SIP planner             *)
(* (src/js/calculator.js, class SIPCalculator, lines 9-202).               *)
(*                                                                         *)
(* JavaScript numbers are modelled as exact extended rationals: a record   *)
(* [n, d] with d > 0 in lowest terms is the number n/d, [1,0] and [-1,0]   *)
(* are +Infinity and -Infinity, [0,0] is NaN.  The inputs the model draws  *)
(* are those for which IEEE-754 double arithmetic is exact (small dyadic   *)
(* values, monthly growth factors 1, 3/2 and 2, horizons that are whole    *)
(* numbers of quarter-years), so that the exact value is the value the     *)
(* code computes.  The one inexact operation, a division followed by       *)
(* Math.round, rounds the same way because the exact quotient is never     *)
(* within an ulp of a half-integer unless it is one.  Negative zero is not *)
(* modelled.                                                               *)
(***************************************************************************)
EXTENDS Integers, Sequences, FiniteSets, TLC

VARIABLES
    pc,                 \* "call" | "search" | "summary" | "done"
    call,               \* [op, args]: the operation called and its arguments
    ret,                \* what the call returned (0 until it has)
    low, high,          \* calculateStepUpSIP: the bracket
    initialSIP,         \* calculateStepUpSIP: the last midpoint
    iters,              \* calculateStepUpSIP: loop iterations done (saturating)
    goals,              \* calculateSummary: the goal array passed in
    idx,                \* calculateSummary: goals.forEach has visited goals[1..idx]
    totalSIP, totalFutureValue, totalInvested,   \* calculateSummary: locals
    gmGoals,            \* GoalManager: this.goals
    storageService,     \* GoalManager: this.storageService
    localStorage,       \* the item stored under 'multigoal-sip-goals' (null: none)
    storageFails,       \* localStorage throws on access (disabled, quota exceeded)
    gmCall,             \* [op, args]: the last call made on the page's objects
    gmRet,              \* what that call returned, or the error it threw
    currentTheme,       \* ThemeManager: this.currentTheme
    themeItem,          \* the item stored under 'multigoal-sip-theme' (null: none)
    prefersDark,        \* matchMedia('(prefers-color-scheme: dark)').matches
    chart,              \* ChartManager: this.chart
    pendingImport       \* handleImport: the file whose read is awaited (null: none)

searchVars  == <<low, high, initialSIP, iters>>
summaryVars == <<goals, idx, totalSIP, totalFutureValue, totalInvested>>
appVars == <<gmGoals, storageService, localStorage, storageFails, gmCall, gmRet>>
themeVars == <<currentTheme, themeItem, prefersDark>>
uiVars == <<themeVars, chart, pendingImport>>
vars == <<pc, call, ret, low, high, initialSIP, iters,
          goals, idx, totalSIP, totalFutureValue, totalInvested,
          gmGoals, storageService, localStorage, storageFails, gmCall, gmRet,
          currentTheme, themeItem, prefersDark, chart, pendingImport>>

(***************************************************************************)
(* Bounds of the model.                                                    *)
(***************************************************************************)
MaxQuarters  == 7        \* horizons are 1/4 .. MaxQuarters/4 years
MaxTargetIdx == 7        \* targets are TargetSeq[1 .. MaxTargetIdx]
MaxGoals     == 2        \* goal arrays hold at most MaxGoals goals
MaxIters     == 9        \* the iteration counter saturates here
MaxMagnitude == 67108864 \* growth factors whose powers exceed this are left out

(***************************************************************************)
(* JavaScript numbers.                                                     *)
(***************************************************************************)
Abs(i) == IF i < 0 THEN -i ELSE i
Sign(i) == IF i < 0 THEN -1 ELSE IF i > 0 THEN 1 ELSE 0

RECURSIVE GCD(_, _)
GCD(a, b) == IF b = 0 THEN a ELSE GCD(b, a % b)

NaN    == [n |-> 0, d |-> 0]
PosInf == [n |-> 1, d |-> 0]
NegInf == [n |-> -1, d |-> 0]

\* n/d in lowest terms; d = 0 gives an infinity or NaN
Frac(n, d) ==
    IF d = 0 THEN [n |-> Sign(n), d |-> 0]
    ELSE LET g == GCD(Abs(n), Abs(d))
             s == IF d < 0 THEN -1 ELSE 1
         IN  [n |-> s * (n \div g), d |-> s * (d \div g)]
Num(i) == [n |-> i, d |-> 1]
Zero == Num(0)
One  == Num(1)

IsNaN(x)    == x.d = 0 /\ x.n = 0
IsInf(x)    == x.d = 0 /\ x.n # 0
IsFinite(x) == x.d # 0
IsInteger(x) == x.d = 1

\* a + b
Add(a, b) ==
    IF IsNaN(a) \/ IsNaN(b) THEN NaN
    ELSE IF IsInf(a) /\ IsInf(b) THEN (IF a.n = b.n THEN a ELSE NaN)
    ELSE IF IsInf(a) THEN a
    ELSE IF IsInf(b) THEN b
    ELSE LET g == GCD(a.d, b.d)
         IN  Frac(a.n * (b.d \div g) + b.n * (a.d \div g), (a.d \div g) * b.d)
Neg(a) == [n |-> -a.n, d |-> a.d]
\* a - b
Sub(a, b) == Add(a, Neg(b))

\* a * b
Mul(a, b) ==
    IF IsNaN(a) \/ IsNaN(b) THEN NaN
    ELSE IF IsInf(a) \/ IsInf(b)
         THEN [n |-> Sign(a.n) * Sign(b.n), d |-> 0]    \* 0 * Infinity is NaN
    ELSE LET g1 == GCD(Abs(a.n), b.d)
             g2 == GCD(Abs(b.n), a.d)
         IN  Frac((a.n \div g1) * (b.n \div g2), (a.d \div g2) * (b.d \div g1))

\* a / b  (the divisor zero is +0)
Div(a, b) ==
    IF IsNaN(a) \/ IsNaN(b) THEN NaN
    ELSE IF IsInf(b) THEN (IF IsInf(a) THEN NaN ELSE Zero)
    ELSE IF IsInf(a) THEN [n |-> a.n * (IF b.n < 0 THEN -1 ELSE 1), d |-> 0]
    ELSE IF b.n = 0 THEN [n |-> Sign(a.n), d |-> 0]
    ELSE Mul(a, Frac(b.d, b.n))

\* a < b, a > b, a === b
Lt(a, b) ==
    IF IsNaN(a) \/ IsNaN(b) THEN FALSE
    ELSE IF IsInf(a) THEN a.n < 0 /\ b # NegInf
    ELSE IF IsInf(b) THEN b.n > 0
    ELSE LET g == GCD(a.d, b.d)
         IN  a.n * (b.d \div g) < b.n * (a.d \div g)
Gt(a, b) == Lt(b, a)
StrictEq(a, b) == ~IsNaN(a) /\ ~IsNaN(b) /\ a = b
Le(a, b) == Lt(a, b) \/ StrictEq(a, b)
Ge(a, b) == Le(b, a)

\* !x : 0 and NaN are falsy
Falsy(x) == IsNaN(x) \/ x = Zero

\* Math.round: the nearest integer, halves towards +Infinity
MathRound(x) ==
    IF ~IsFinite(x) THEN x ELSE Num((2 * x.n + x.d) \div (2 * x.d))

\* Math.abs(x)
MathAbs(x) == [n |-> Abs(x.n), d |-> x.d]

\* Math.max(a, b)
MathMax(a, b) ==
    IF IsNaN(a) \/ IsNaN(b) THEN NaN ELSE IF Lt(a, b) THEN b ELSE a

\* x^e for a natural number e
RECURSIVE NatPow(_, _)
NatPow(x, e) ==
    IF e = 0 THEN One
    ELSE IF e % 2 = 0 THEN LET h == NatPow(x, e \div 2) IN Mul(h, h)
    ELSE Mul(x, NatPow(x, e - 1))

\* Math.pow(x, y) where the result is a rational the model can hold:
\* any x with an integer y, and the bases 0, 1, negative and +Infinity
\* (whose result does not depend on the fraction) with a fractional y
PowDefined(x, y) ==
    IF IsNaN(x) \/ IsNaN(y) THEN TRUE
    ELSE IF ~IsFinite(y) THEN FALSE
    ELSE IF IsInteger(y) THEN TRUE
    ELSE x = One \/ x = Zero \/ x = PosInf \/ (IsFinite(x) /\ x.n < 0)
MathPow(x, y) ==
    IF y = Zero THEN One
    ELSE IF IsNaN(x) \/ IsNaN(y) THEN NaN
    ELSE IF IsFinite(y) /\ IsInteger(y)
         THEN (IF y.n > 0 THEN NatPow(x, y.n) ELSE Div(One, NatPow(x, -y.n)))
    ELSE IF IsFinite(y) /\ x = One THEN One
    ELSE IF IsFinite(y) /\ IsFinite(x) /\ x.n < 0 THEN NaN
    ELSE IF IsFinite(y) /\ (x = Zero \/ x = PosInf)
         THEN (IF (y.n > 0) = (x = Zero) THEN Zero ELSE PosInf)
    ELSE CHOOSE v \in {} : TRUE      \* outside the model's domain


(***************************************************************************)
(* SIPCalculator (src/js/calculator.js).                                   *)
(***************************************************************************)
tolerance == 1

\* calculateInflationAdjustedAmount without the Math.round of line 33
calculateInflationAdjustedAmount_unrounded(currentPrice, inflationRate, years) ==
    IF StrictEq(currentPrice, Zero) \/ StrictEq(years, Zero) THEN currentPrice
    ELSE Mul(currentPrice, MathPow(Add(One, Div(inflationRate, Num(100))), years))

\* calculateInflationAdjustedAmount without the years === 0 test of line 26
calculateInflationAdjustedAmount_noYearsTest(currentPrice, inflationRate, years) ==
    IF StrictEq(currentPrice, Zero) THEN currentPrice
    ELSE MathRound(Mul(currentPrice,
                       MathPow(Add(One, Div(inflationRate, Num(100))), years)))

calculateInflationAdjustedAmount(currentPrice, inflationRate, years) ==
    IF StrictEq(currentPrice, Zero) \/ StrictEq(years, Zero) THEN currentPrice
    ELSE LET r == Div(inflationRate, Num(100))
             futureValue == Mul(currentPrice, MathPow(Add(One, r), years))
         IN  MathRound(futureValue)

\* the locals of the two nested loops are kept in a record
\* [year, month, futureValue, currentSIP]

\* lines 123-126: the inner loop, for (let month = 0; month < 12; month++)
RECURSIVE StepUpFVMonths(_, _, _)
StepUpFVMonths(st, monthlyRate, monthsRemaining) ==
    IF st.month < 12
    THEN LET totalMonths == Sub(monthsRemaining, Num(st.month))
         IN  StepUpFVMonths(
                 [st EXCEPT !.futureValue =
                                Add(@, Mul(st.currentSIP,
                                           MathPow(Add(One, monthlyRate), totalMonths))),
                            !.month = @ + 1],
                 monthlyRate, monthsRemaining)
    ELSE st

\* lines 119-130: the outer loop, for (let year = 0; year < years; year++)
RECURSIVE StepUpFVYears(_, _, _, _)
StepUpFVYears(st, years, monthlyRate, annualStepUp) ==
    IF Lt(Num(st.year), years)
    THEN LET monthsRemaining == Mul(Sub(years, Num(st.year)), Num(12))
             after == StepUpFVMonths([st EXCEPT !.month = 0],
                                     monthlyRate, monthsRemaining)
         IN  StepUpFVYears(
                 [after EXCEPT !.currentSIP = Mul(@, Add(One, annualStepUp)),
                               !.year = @ + 1],
                 years, monthlyRate, annualStepUp)
    ELSE st

\* calculateStepUpFutureValue without the yearly increase of line 129
calculateStepUpFutureValue_level(initialSIP_, years, annualRate, stepUpRate) ==
    StepUpFVYears([year |-> 0, month |-> 0, futureValue |-> Zero,
                   currentSIP |-> initialSIP_],
                  years, Div(Div(annualRate, Num(12)), Num(100)), Zero).futureValue

\* calculateStepUpFutureValue started from a contribution of 1 whatever
\* initialSIP is
calculateStepUpFutureValue_unit(initialSIP_, years, annualRate, stepUpRate) ==
    StepUpFVYears([year |-> 0, month |-> 0, futureValue |-> Zero,
                   currentSIP |-> One],
                  years, Div(Div(annualRate, Num(12)), Num(100)),
                  Div(stepUpRate, Num(100))).futureValue

calculateStepUpFutureValue(initialSIP_, years, annualRate, stepUpRate) ==
    LET monthlyRate  == Div(Div(annualRate, Num(12)), Num(100))
        annualStepUp == Div(stepUpRate, Num(100))
    IN  StepUpFVYears([year |-> 0, month |-> 0, futureValue |-> Zero,
                       currentSIP |-> initialSIP_],
                      years, monthlyRate, annualStepUp).futureValue

\* calculateStepUpSIP: the state before the loop
SearchInit(targetAmount) ==
    [low |-> Zero, high |-> Div(targetAmount, Num(12)), initialSIP |-> Zero]
\* the loop condition
SearchCond(b) == Gt(Sub(b.high, b.low), Num(tolerance))
\* one iteration of the loop with the two branches of line 94 exchanged
SearchBody_flipped(b, targetAmount, years, annualRate, stepUpRate) ==
    LET mid == Div(Add(b.low, b.high), Num(2))
        fv  == calculateStepUpFutureValue(mid, years, annualRate, stepUpRate)
    IN  IF Lt(fv, targetAmount)
        THEN [low |-> b.low, high |-> mid, initialSIP |-> mid]
        ELSE [low |-> mid, high |-> b.high, initialSIP |-> mid]
\* one iteration of the loop
SearchBody(b, targetAmount, years, annualRate, stepUpRate) ==
    LET mid == Div(Add(b.low, b.high), Num(2))
        fv  == calculateStepUpFutureValue(mid, years, annualRate, stepUpRate)
    IN  IF Lt(fv, targetAmount)
        THEN [low |-> mid, high |-> b.high, initialSIP |-> mid]
        ELSE [low |-> b.low, high |-> mid, initialSIP |-> mid]
RECURSIVE SearchLoop(_, _, _, _, _)
SearchLoop(b, targetAmount, years, annualRate, stepUpRate) ==
    IF SearchCond(b)
    THEN SearchLoop(SearchBody(b, targetAmount, years, annualRate, stepUpRate),
                    targetAmount, years, annualRate, stepUpRate)
    ELSE b
\* the call as a whole (for the inputs on which the loop ends)
calculateStepUpSIP(targetAmount, years, annualRate, stepUpRate) ==
    MathRound(SearchLoop(SearchInit(targetAmount),
                         targetAmount, years, annualRate, stepUpRate).initialSIP)

\* line 62: ((1 + i)^n - 1) / i * (1 + i)
futureValueFactor(i, n) ==
    Mul(Div(Sub(MathPow(Add(One, i), n), One), i), Add(One, i))

\* calculateMonthlySIP without the i === 0 test of line 56
calculateMonthlySIP_noRateTest(targetAmount, years, annualRate, stepUpRate) ==
    LET n == Mul(years, Num(12))
        i == Div(Div(annualRate, Num(12)), Num(100))
    IN  IF StrictEq(targetAmount, Zero) \/ StrictEq(n, Zero)
        THEN Zero
        ELSE IF Falsy(stepUpRate) \/ StrictEq(stepUpRate, Zero)
        THEN MathRound(Div(targetAmount, futureValueFactor(i, n)))
        ELSE calculateStepUpSIP(targetAmount, years, annualRate, stepUpRate)

calculateMonthlySIP(targetAmount, years, annualRate, stepUpRate) ==
    LET n == Mul(years, Num(12))
        i == Div(Div(annualRate, Num(12)), Num(100))
    IN  IF StrictEq(targetAmount, Zero) \/ StrictEq(n, Zero) \/ StrictEq(i, Zero)
        THEN Zero
        ELSE IF Falsy(stepUpRate) \/ StrictEq(stepUpRate, Zero)
        THEN LET monthlySIP == Div(targetAmount, futureValueFactor(i, n))
             IN  MathRound(monthlySIP)
        ELSE calculateStepUpSIP(targetAmount, years, annualRate, stepUpRate)

\* the divisors of the divisions a call of calculateMonthlySIP evaluates:
\* 12 and 100 on line 54; i and futureValueFactor on lines 62-63; the
\* literals 12, 100 and 2 of calculateStepUpSIP and calculateStepUpFutureValue
MonthlySIPDivisors(targetAmount, years, annualRate, stepUpRate) ==
    LET n == Mul(years, Num(12))
        i == Div(Div(annualRate, Num(12)), Num(100))
    IN  {Num(12), Num(100)} \cup
        IF StrictEq(targetAmount, Zero) \/ StrictEq(n, Zero) \/ StrictEq(i, Zero)
        THEN {}
        ELSE IF Falsy(stepUpRate) \/ StrictEq(stepUpRate, Zero)
        THEN {i, futureValueFactor(i, n)}
        ELSE {Num(2)}

\* lines 152-155: the locals are kept in a record
\* [year, totalInvestment, currentSIP]
RECURSIVE TotalInvestmentYears(_, _, _)
TotalInvestmentYears(st, years, annualStepUp) ==
    IF Lt(Num(st.year), years)
    THEN TotalInvestmentYears(
             [year |-> st.year + 1,
              totalInvestment |-> Add(st.totalInvestment, Mul(st.currentSIP, Num(12))),
              currentSIP |-> Mul(st.currentSIP, Add(One, annualStepUp))],
             years, annualStepUp)
    ELSE st

\* calculateTotalInvestment taking the flat branch of line 144 always
calculateTotalInvestment_flat(monthlySIP, years, stepUpRate) ==
    Mul(Mul(monthlySIP, years), Num(12))

calculateTotalInvestment(monthlySIP, years, stepUpRate) ==
    IF Falsy(stepUpRate) \/ StrictEq(stepUpRate, Zero)
    THEN Mul(Mul(monthlySIP, years), Num(12))
    ELSE TotalInvestmentYears(
             [year |-> 0, totalInvestment |-> Zero, currentSIP |-> monthlySIP],
             years, Div(stepUpRate, Num(100))).totalInvestment

calculateWealthGain(futureValue, totalInvested_) == Sub(futureValue, totalInvested_)


(***************************************************************************)
(* The inputs the model draws.                                             *)
(***************************************************************************)
Min(a, b) == IF a < b THEN a ELSE b
Max(a, b) == IF a < b THEN b ELSE a

TargetSeq == <<6, 12, 18, 48, 120, 384, 768, 1536>>
Targets == {Num(TargetSeq[k]) : k \in 1 .. Min(MaxTargetIdx, Len(TargetSeq))}
OddTargets == {Zero, Num(-12), NaN, PosInf, NegInf}
Years == {Frac(q, 4) : q \in 1 .. MaxQuarters}
OddYears == {Zero, Num(-1), NaN}
Rates == {Zero, Num(600), Num(1200)}       \* monthly growth factor 1, 3/2, 2
OddRates == {Num(-1200)}                   \* monthly growth factor 0
StepUps == {Zero, Num(50), Num(100)}       \* yearly step factor 1, 3/2, 2
SIPs == {Zero, Frac(1, 2), One, Num(2), Num(5)}
Prices == {Zero, Frac(1, 4), Frac(201, 2), Num(100), Num(-3), Frac(-5, 2), NaN}
InflationRates == {Zero, Num(100), Num(-200), NaN}

\* b^e <= lim, computed without forming b^e
RECURSIVE PowWithin(_, _, _)
PowWithin(b, e, lim) ==
    IF e <= 0 \/ b <= 1 THEN TRUE
    ELSE IF lim < b THEN FALSE
    ELSE PowWithin(b, e - 1, lim \div b)

\* the number of passes of "for (year = 0; year < years; year++)"
LoopYears(years) ==
    IF ~IsFinite(years) \/ years.n <= 0 THEN 0
    ELSE (years.n + years.d - 1) \div years.d

\* the powers of the monthly growth factor over the horizon, scaled by the
\* amount they multiply, stay within the integers the model computes with
InRange(amount, years, annualRate) ==
    LET g == Add(One, Div(Div(annualRate, Num(12)), Num(100)))
        a == IF IsFinite(amount) THEN Max(1, Abs(amount.n) \div amount.d) ELSE 1
    IN  IF ~IsFinite(g) \/ ~IsFinite(years) THEN TRUE
        ELSE PowWithin(Max(Abs(g.n), g.d),
                       12 * Max(LoopYears(years), LoopYears(Neg(years))),
                       MaxMagnitude \div a)

(***************************************************************************)
(* calculateSummary.  A goal is the record of the fields the engine reads; *)
(* a missing stepUpRate (undefined) is falsy like NaN and is written NaN.  *)
(***************************************************************************)
Goal(currentPrice, inflationRate, years, expectedReturn, stepUpRate) ==
    [currentPrice |-> currentPrice, inflationRate |-> inflationRate,
     years |-> years, expectedReturn |-> expectedReturn,
     stepUpRate |-> stepUpRate]

GoalKinds ==
    { Goal(Num(48), Zero, Frac(1, 4), Num(1200), Zero),       \* level SIP
      Goal(Num(384), Num(100), One, Num(600), Num(100)),      \* step-up SIP
      Goal(Num(120), Zero, Frac(1, 2), Num(1200), NaN),       \* no stepUpRate
      Goal(Num(12), Num(100), Zero, Num(1200), Zero),         \* zero years
      Goal(Zero, Zero, One, Num(1200), Num(50)),              \* zero price
      Goal(Num(48), Zero, Num(-1), Num(1200), Zero),          \* negative years
      Goal(Num(-48), Zero, Frac(1, 4), Num(1200), Zero),      \* negative price
      Goal(NaN, Zero, One, Num(1200), Zero) }                 \* NaN price

RECURSIVE SeqsUpTo(_, _)
SeqsUpTo(S, k) ==
    IF k = 0 THEN {<<>>}
    ELSE LET shorter == SeqsUpTo(S, k - 1)
         IN  shorter \cup {Append(q, x) : q \in shorter, x \in S}

(***************************************************************************)
(* The engine as a state machine.  A behaviour is one call of one          *)
(* operation: Init draws the operation and its arguments, the actions run  *)
(* it.  calculateStepUpSIP and calculateSummary run their loops one        *)
(* iteration per step; the locals of a loop exist during the call and hold *)
(* their initial values otherwise.                                         *)
(***************************************************************************)
CallOf(op, args) == [op |-> op, args |-> args]

InflationCalls ==
    {CallOf("calculateInflationAdjustedAmount", a) :
        a \in {x \in Prices \X InflationRates \X (Years \cup OddYears) :
                  IF x[1] = Zero \/ x[3] = Zero THEN TRUE       \* line 26
                  ELSE /\ PowDefined(Add(One, Div(x[2], Num(100))), x[3])
                       /\ InRange(x[1], x[3], Mul(x[2], Num(12)))}}
FutureValueCalls ==
    {CallOf("calculateStepUpFutureValue", a) :
        a \in {x \in SIPs \X (Years \cup OddYears) \X Rates \X StepUps :
                  InRange(x[1], x[2], x[3])}}
MonthlySIPCalls ==
    {CallOf("calculateMonthlySIP", a) :
        a \in {x \in (Targets \cup (OddTargets \ {PosInf})) \X (Years \cup OddYears)
                       \X (Rates \cup OddRates) \X (StepUps \cup {NaN}) :
                  InRange(x[1], x[2], x[3])}}
TotalInvestmentCalls ==
    {CallOf("calculateTotalInvestment", a) :
        a \in (SIPs \cup {Num(-3)}) \X (Years \cup OddYears) \X (StepUps \cup {NaN})}
StepUpSIPCalls ==
    {CallOf("calculateStepUpSIP", a) :
        a \in {x \in (Targets \cup OddTargets) \X (Years \cup OddYears)
                       \X Rates \X StepUps :
                  InRange(x[1], x[2], x[3])}}
SummaryCalls ==
    {CallOf("calculateSummary", <<gs>>) : gs \in SeqsUpTo(GoalKinds, MaxGoals)}

Init ==
    /\ pc = "call"
    /\ call \in InflationCalls \cup FutureValueCalls \cup MonthlySIPCalls
                \cup TotalInvestmentCalls \cup StepUpSIPCalls \cup SummaryCalls
    /\ ret = Zero
    /\ low = Zero /\ high = Zero /\ initialSIP = Zero /\ iters = 0
    /\ goals = <<>> /\ idx = 0
    /\ totalSIP = Zero /\ totalFutureValue = Zero /\ totalInvested = Zero
    /\ gmGoals = [array |-> <<>>] /\ storageService = [null |-> TRUE]
    /\ localStorage = [null |-> TRUE] /\ storageFails = FALSE
    /\ gmCall = [op |-> "constructor", args |-> <<[null |-> TRUE]>>]
    /\ gmRet = [undefined |-> TRUE]
    /\ currentTheme = [string |-> "light"] /\ themeItem = [null |-> TRUE]
    /\ prefersDark = FALSE /\ chart = [null |-> TRUE]
    /\ pendingImport = [null |-> TRUE]

InflationAdjustedAmount ==
    /\ pc = "call" /\ call.op = "calculateInflationAdjustedAmount"
    /\ pc' = "done"
    /\ ret' = calculateInflationAdjustedAmount(call.args[1], call.args[2], call.args[3])
    /\ UNCHANGED <<appVars, uiVars, call, searchVars, summaryVars>>

StepUpFutureValue ==
    /\ pc = "call" /\ call.op = "calculateStepUpFutureValue"
    /\ pc' = "done"
    /\ ret' = calculateStepUpFutureValue(call.args[1], call.args[2],
                                         call.args[3], call.args[4])
    /\ UNCHANGED <<appVars, uiVars, call, searchVars, summaryVars>>

MonthlySIP ==
    /\ pc = "call" /\ call.op = "calculateMonthlySIP"
    /\ pc' = "done"
    /\ ret' = calculateMonthlySIP(call.args[1], call.args[2],
                                  call.args[3], call.args[4])
    /\ UNCHANGED <<appVars, uiVars, call, searchVars, summaryVars>>

TotalInvestment ==
    /\ pc = "call" /\ call.op = "calculateTotalInvestment"
    /\ pc' = "done"
    /\ ret' = calculateTotalInvestment(call.args[1], call.args[2], call.args[3])
    /\ UNCHANGED <<appVars, uiVars, call, searchVars, summaryVars>>

\* calculateStepUpSIP whose initialSIP starts from the previous result, as a
\* field shared between calls would
StepUpSIPEnter_stale ==
    /\ pc = "call" /\ call.op = "calculateStepUpSIP"
    /\ pc' = "search"
    /\ low' = Zero /\ high' = Div(call.args[1], Num(12)) /\ initialSIP' = ret
    /\ iters' = 0
    /\ UNCHANGED <<appVars, uiVars, call, ret, summaryVars>>

\* calculateStepUpSIP, lines 81-88: the locals before the loop
StepUpSIPEnter ==
    /\ pc = "call" /\ call.op = "calculateStepUpSIP"
    /\ pc' = "search"
    /\ LET b == SearchInit(call.args[1])
       IN  low' = b.low /\ high' = b.high /\ initialSIP' = b.initialSIP
    /\ iters' = 0
    /\ UNCHANGED <<appVars, uiVars, call, ret, summaryVars>>

Bracket == [low |-> low, high |-> high, initialSIP |-> initialSIP]

\* lines 90-99: one pass of the while loop
StepUpSIPIterate ==
    /\ pc = "search"
    /\ SearchCond(Bracket)
    /\ LET b == SearchBody(Bracket, call.args[1], call.args[2],
                           call.args[3], call.args[4])
       IN  low' = b.low /\ high' = b.high /\ initialSIP' = b.initialSIP
    /\ iters' = Min(iters + 1, MaxIters)
    /\ UNCHANGED <<appVars, uiVars, pc, call, ret, summaryVars>>

\* line 101: the loop condition is false
StepUpSIPReturn ==
    /\ pc = "search"
    /\ ~SearchCond(Bracket)
    /\ pc' = "done"
    /\ ret' = MathRound(initialSIP)
    /\ low' = Zero /\ high' = Zero /\ initialSIP' = Zero /\ iters' = 0
    /\ UNCHANGED <<appVars, uiVars, call, summaryVars>>

\* lines 176-178
SummaryEnter ==
    /\ pc = "call" /\ call.op = "calculateSummary"
    /\ pc' = "summary"
    /\ goals' = call.args[1]
    /\ idx' = 0
    /\ totalSIP' = Zero /\ totalFutureValue' = Zero /\ totalInvested' = Zero
    /\ UNCHANGED <<appVars, uiVars, call, ret, searchVars>>

\* goal.stepUpRate || 0
StepUpRateOf(goal) == IF Falsy(goal.stepUpRate) THEN Zero ELSE goal.stepUpRate

\* the callback adding the current price, not the inflated one, to
\* totalFutureValue
SummaryCallback_price(totals, goal) ==
    LET inflationAdjustedAmount ==
            calculateInflationAdjustedAmount(goal.currentPrice,
                                             goal.inflationRate, goal.years)
        stepUpRate == StepUpRateOf(goal)
        sip == calculateMonthlySIP(inflationAdjustedAmount, goal.years,
                                   goal.expectedReturn, stepUpRate)
    IN  [totalSIP |-> Add(totals.totalSIP, sip),
         totalFutureValue |-> Add(totals.totalFutureValue, goal.currentPrice),
         totalInvested |-> Add(totals.totalInvested,
                               calculateTotalInvestment(sip, goal.years, stepUpRate))]

\* lines 180-191: the callback of goals.forEach, on the running totals
SummaryCallback(totals, goal) ==
    LET inflationAdjustedAmount ==
            calculateInflationAdjustedAmount(goal.currentPrice,
                                             goal.inflationRate, goal.years)
        stepUpRate == StepUpRateOf(goal)
        sip == calculateMonthlySIP(inflationAdjustedAmount, goal.years,
                                   goal.expectedReturn, stepUpRate)
    IN  [totalSIP |-> Add(totals.totalSIP, sip),
         totalFutureValue |-> Add(totals.totalFutureValue, inflationAdjustedAmount),
         totalInvested |-> Add(totals.totalInvested,
                               calculateTotalInvestment(sip, goal.years, stepUpRate))]

\* goals.forEach calls the callback for the next goal
SummaryForEach ==
    /\ pc = "summary"
    /\ idx < Len(goals)
    /\ LET t == SummaryCallback([totalSIP |-> totalSIP,
                                 totalFutureValue |-> totalFutureValue,
                                 totalInvested |-> totalInvested],
                                goals[idx + 1])
       IN  /\ totalSIP' = t.totalSIP
           /\ totalFutureValue' = t.totalFutureValue
           /\ totalInvested' = t.totalInvested
    /\ idx' = idx + 1
    /\ UNCHANGED <<appVars, uiVars, pc, call, ret, goals, searchVars>>

\* the returned object without the Math.max floors of lines 198-199
SummaryObject_unfloored(tSIP, tFutureValue, tInvested, tWealthGained) ==
    [totalSIP |-> tSIP,
     totalFutureValue |-> tFutureValue,
     totalInvested |-> tInvested,
     totalWealthGained |-> tWealthGained]

\* the object of lines 195-200
SummaryObject(tSIP, tFutureValue, tInvested, tWealthGained) ==
    [totalSIP |-> tSIP,
     totalFutureValue |-> tFutureValue,
     totalInvested |-> MathMax(tInvested, Zero),
     totalWealthGained |-> MathMax(tWealthGained, Zero)]

\* lines 193-200
SummaryReturn ==
    /\ pc = "summary"
    /\ idx = Len(goals)
    /\ pc' = "done"
    /\ LET totalWealthGained == calculateWealthGain(totalFutureValue, totalInvested)
       IN  ret' = SummaryObject(totalSIP, totalFutureValue, totalInvested,
                                totalWealthGained)
    /\ goals' = <<>> /\ idx' = 0
    /\ totalSIP' = Zero /\ totalFutureValue' = Zero /\ totalInvested' = Zero
    /\ UNCHANGED <<appVars, uiVars, call, searchVars>>

\* the running totals after the forEach over gs
RECURSIVE SummaryTotals(_)
SummaryTotals(gs) ==
    IF gs = <<>>
    THEN [totalSIP |-> Zero, totalFutureValue |-> Zero, totalInvested |-> Zero]
    ELSE SummaryCallback(SummaryTotals(SubSeq(gs, 1, Len(gs) - 1)), gs[Len(gs)])

\* the call as a whole
calculateSummary(gs) ==
    LET t == SummaryTotals(gs)
    IN  SummaryObject(t.totalSIP, t.totalFutureValue, t.totalInvested,
                      calculateWealthGain(t.totalFutureValue, t.totalInvested))

Next ==
    \/ InflationAdjustedAmount
    \/ StepUpFutureValue
    \/ MonthlySIP
    \/ TotalInvestment
    \/ StepUpSIPEnter
    \/ StepUpSIPIterate
    \/ StepUpSIPReturn
    \/ SummaryEnter
    \/ SummaryForEach
    \/ SummaryReturn

Spec == Init /\ [][Next]_vars

(***************************************************************************)
(* Calls in sequence on one SIPCalculator: after a call has returned the   *)
(* caller makes another one.  The class has no fields, so nothing but the  *)
(* caller's copy of the last result is left from one call to the next.     *)
(***************************************************************************)
SharedGoalA == Goal(Num(48), Zero, Frac(1, 4), Num(1200), Zero)
SharedGoalB == Goal(Num(384), Num(100), One, Num(600), Num(100))

SharedCalls ==
    { CallOf("calculateInflationAdjustedAmount", <<Num(100), Num(100), One>>),
      CallOf("calculateInflationAdjustedAmount", <<Frac(201, 2), Zero, Zero>>),
      CallOf("calculateStepUpFutureValue", <<One, One, Num(1200), Num(50)>>),
      CallOf("calculateStepUpFutureValue", <<Num(2), Frac(3, 2), Zero, Num(100)>>),
      CallOf("calculateMonthlySIP", <<Num(384), Frac(1, 4), Num(1200), Zero>>),
      CallOf("calculateMonthlySIP", <<Num(384), Frac(1, 4), Num(1200), Num(100)>>),
      CallOf("calculateTotalInvestment", <<Num(2), Frac(3, 2), Num(50)>>),
      CallOf("calculateStepUpSIP", <<Num(120), Frac(1, 4), Num(600), Zero>>),
      CallOf("calculateStepUpSIP", <<Num(12), One, Num(1200), Zero>>),
      CallOf("calculateStepUpSIP", <<Num(120), Frac(1, 2), Num(1200), Num(50)>>),
      CallOf("calculateSummary", << <<>> >>),
      CallOf("calculateSummary", << <<SharedGoalA>> >>),
      CallOf("calculateSummary", << <<SharedGoalA, SharedGoalB>> >>),
      CallOf("calculateSummary", << <<SharedGoalB, SharedGoalA>> >>) }

SharedInit == Init /\ call \in SharedCalls

\* the caller's next call, the last result still in its hands
NextCall ==
    /\ pc = "done"
    /\ pc' = "call"
    /\ call' \in SharedCalls
    /\ UNCHANGED <<appVars, uiVars, ret, searchVars, summaryVars>>

SharedNext == Next \/ NextCall

SharedSpec == SharedInit /\ [][SharedNext]_vars

\* ENABLED <<StepUpSIPIterate>>_vars, written as a state predicate: the loop
\* condition holds and the pass changes the state
StepUpSIPIterateEnabled ==
    /\ pc = "search"
    /\ SearchCond(Bracket)
    /\ \/ iters < MaxIters
       \/ SearchBody(Bracket, call.args[1], call.args[2],
                     call.args[3], call.args[4]) # Bracket

\* the passes of the while loop and the return after it are program steps:
\* the engine does not stop in the middle of a search.  The second conjunct
\* is WF_vars(StepUpSIPIterate) with its ENABLED written out.
FairSpec ==
    /\ Spec
    /\ WF_vars(StepUpSIPReturn)
    /\ ([]<>~StepUpSIPIterateEnabled \/ []<><<StepUpSIPIterate>>_vars)

(***************************************************************************)
(* JS values of GoalManager (src/unnamed/part_000) and StorageService      *)
(* (src/js/storage.js).  Numbers are the records above; null, booleans,    *)
(* arrays and thrown errors are records of their own, so that any two      *)
(* values can be compared; a goal object is the record of its fields, its  *)
(* name a string.                                                          *)
(***************************************************************************)
Null == [null |-> TRUE]
True == [bool |-> TRUE]
False == [bool |-> FALSE]
Arr(s) == [array |-> s]
TypeError == [throws |-> "TypeError"]
IsNumber(v) == DOMAIN v = {"n", "d"}
IsArray(v) == DOMAIN v = {"array"}          \* Array.isArray(v)

\* a !== b where one side is a number (goal.id !== goalId): values of
\* different types, and objects, are never equal to a number
StrictNeq(a, b) == ~(IsNumber(a) /\ IsNumber(b) /\ StrictEq(a, b))

\* The text stored under the storage key is the record [text |-> document]:
\* a document is what JSON.parse makes of the text, or one of the two texts
\* that have no document.
Text(document) == [text |-> document]
InvalidText == Text([invalid |-> TRUE])       \* 'invalid json'
EmptyText == Text([empty |-> TRUE])           \* ''
NotArrayText == Text([not |-> "array"])       \* '{"not":"array"}'
NullText == Text(Null)                        \* 'null'

\* JSON.stringify of a number: NaN and the infinities are written null
JSONNumber(v) == IF IsNumber(v) /\ ~IsFinite(v) THEN Null ELSE v

\* JSON.stringify of a goal object
JSONObject(o) ==
    [f \in DOMAIN o |-> IF f = "name" THEN o[f] ELSE JSONNumber(o[f])]

\* JSON.stringify(goals) for an array of goal objects
JSONStringify(a) ==
    Text(Arr([k \in 1 .. Len(a.array) |-> JSONObject(a.array[k])]))

\* JSON.parse(text) throws on a text that is not JSON
JSONParseThrows(t) == t \in {InvalidText, EmptyText}
JSONParse(t) == t.text

\* StorageService.saveGoals(goals), lines 23-32: the new stored item and the
\* returned value; fails is "localStorage throws on access"
saveGoals(item, fails, goals_) ==
    IF fails THEN [item |-> item, ret |-> False]
    ELSE [item |-> JSONStringify(goals_), ret |-> True]

\* StorageService.loadGoals(), lines 38-59
loadGoals(item, fails) ==
    IF fails THEN Arr(<<>>)                                   \* catch, line 57
    ELSE IF item = Null \/ item = EmptyText THEN Arr(<<>>)    \* !goalsJSON
    ELSE IF JSONParseThrows(item) THEN Arr(<<>>)              \* catch, line 57
    ELSE IF ~IsArray(JSONParse(item)) THEN Arr(<<>>)          \* line 49
    ELSE JSONParse(item)

(***************************************************************************)
(* GoalManager (src/unnamed/part_000).  A handler is an operator from the  *)
(* state m = [goals, storageService, item, fails] it runs in to the goals  *)
(* and the stored item it leaves and the value it returns (or the error it *)
(* throws, which leaves the state as it was).                              *)
(***************************************************************************)
Undefined == [undefined |-> TRUE]
Str(s) == [string |-> s]          \* a string held where null may be held too

\* the page before its theme, chart and import are touched
UIInit ==
    /\ currentTheme = Str("light") /\ themeItem = Null /\ prefersDark = FALSE
    /\ chart = Null /\ pendingImport = Null

MaxClock == 2       \* Date.now() returns one of 1 .. MaxClock
MaxHeld == 2        \* addGoal is called while fewer than MaxHeld goals are held

\* the storage service handed to the constructor: none, a StorageService, or
\* the test double of goal.test.js whose loadGoals returns returnValue and
\* whose saveGoals returns undefined
RealService == [service |-> "StorageService"]
MockService(returnValue) == [mock |-> returnValue]
IsMock(service) == "mock" \in DOMAIN service
Services == {Null, RealService, MockService(Null), MockService(Arr(<<>>))}

\* the arguments of addGoal, as getFormValues passes them: a valid goal, and
\* the form with the price left empty (parseFloat('') is NaN, and NaN <= 0 is
\* false)
FormGoals ==
    { [name |-> "House", currentPrice |-> Num(100), inflationRate |-> Num(7),
       years |-> Num(10), expectedReturn |-> Num(12), stepUpRate |-> Num(5)],
      [name |-> "Car", currentPrice |-> NaN, inflationRate |-> Num(7),
       years |-> Num(10), expectedReturn |-> Num(12), stepUpRate |-> Zero] }

ServiceLoadGoals(m) ==
    IF IsMock(m.storageService) THEN m.storageService.mock
    ELSE loadGoals(m.item, m.fails)

ServiceSaveGoals(m, goals_) ==
    IF IsMock(m.storageService) THEN [item |-> m.item, ret |-> Undefined]
    ELSE saveGoals(m.item, m.fails, goals_)

Throws(m, error) == [goals |-> m.goals, item |-> m.item, ret |-> error]

\* lines 34-42
loadFromStorage(m) ==
    IF m.storageService = Null
    THEN [goals |-> m.goals, item |-> m.item, ret |-> False]
    ELSE [goals |-> ServiceLoadGoals(m), item |-> m.item, ret |-> True]

\* lines 49-55, called with this.goals already updated
saveToStorage(m, goals_) ==
    IF m.storageService = Null THEN [item |-> m.item, ret |-> False]
    ELSE ServiceSaveGoals(m, goals_)

\* lines 68-76: the goal object built by addGoal when Date.now() is now
NewGoal(now, f) ==
    [id |-> Num(now), name |-> f.name, currentPrice |-> f.currentPrice,
     inflationRate |-> f.inflationRate, years |-> f.years,
     expectedReturn |-> f.expectedReturn,
     stepUpRate |-> IF Falsy(f.stepUpRate) THEN Zero ELSE f.stepUpRate]

\* lines 67-80; this.goals.push throws when this.goals is null
addGoal(m, now, f) ==
    IF ~IsArray(m.goals) THEN Throws(m, TypeError)
    ELSE LET goal == NewGoal(now, f)
             pushed == Arr(Append(m.goals.array, goal))
         IN  [goals |-> pushed, item |-> saveToStorage(m, pushed).item,
              ret |-> goal]

\* lines 87-97; this.goals.length throws when this.goals is null
removeGoal(m, goalId) ==
    IF ~IsArray(m.goals) THEN Throws(m, TypeError)
    ELSE LET differs(goal) == StrictNeq(goal.id, goalId)
             kept == Arr(SelectSeq(m.goals.array, differs))
             wasRemoved == Len(kept.array) < Len(m.goals.array)
         IN  [goals |-> kept,
              item |-> IF wasRemoved THEN saveToStorage(m, kept).item
                       ELSE m.item,
              ret |-> IF wasRemoved THEN True ELSE False]

\* lines 103-105; spreading null throws
getAllGoals(m) ==
    IF ~IsArray(m.goals) THEN Throws(m, TypeError)
    ELSE [goals |-> m.goals, item |-> m.item, ret |-> Arr(m.goals.array)]

\* lines 111-113
getGoalCount(m) ==
    IF ~IsArray(m.goals) THEN Throws(m, TypeError)
    ELSE [goals |-> m.goals, item |-> m.item,
          ret |-> Num(Len(m.goals.array))]

\* lines 119-122
clearAllGoals(m) ==
    LET saved == saveToStorage(m, Arr(<<>>))
    IN  [goals |-> Arr(<<>>), item |-> saved.item, ret |-> saved.ret]

(***************************************************************************)
(* The page as a state machine: one GoalManager over one localStorage.     *)
(* Each action is one call; gmCall names it and gmRet holds its result.    *)
(***************************************************************************)
Manager ==
    [goals |-> gmGoals, storageService |-> storageService,
     item |-> localStorage, fails |-> storageFails]

AppInit ==
    /\ pc = "app"
    /\ call = CallOf("none", <<>>)
    /\ ret = Zero
    /\ low = Zero /\ high = Zero /\ initialSIP = Zero /\ iters = 0
    /\ goals = <<>> /\ idx = 0
    /\ totalSIP = Zero /\ totalFutureValue = Zero /\ totalInvested = Zero
    /\ gmGoals = Arr(<<>>)
    /\ storageService \in Services
    /\ localStorage = Null
    /\ storageFails \in BOOLEAN
    /\ gmCall = CallOf("constructor", <<storageService>>)
    /\ gmRet = Undefined
    /\ UIInit

engineVars == <<pc, call, ret, searchVars, summaryVars>>

\* new GoalManager(storageService), lines 25-28 (the page is loaded again)
Constructor ==
    /\ pc = "app"
    /\ \E service \in Services :
          /\ storageService' = service
          /\ gmCall' = CallOf("constructor", <<service>>)
    /\ gmGoals' = Arr(<<>>)
    /\ gmRet' = Undefined
    /\ UNCHANGED <<engineVars, uiVars, localStorage, storageFails>>

LoadFromStorage ==
    /\ pc = "app"
    /\ gmCall' = CallOf("loadFromStorage", <<>>)
    /\ gmGoals' = loadFromStorage(Manager).goals
    /\ gmRet' = loadFromStorage(Manager).ret
    /\ UNCHANGED <<engineVars, uiVars, storageService, localStorage, storageFails>>

AddGoal ==
    /\ pc = "app"
    /\ IsArray(gmGoals) => Len(gmGoals.array) < MaxHeld
    /\ \E now \in 1 .. MaxClock, f \in FormGoals :
          /\ gmCall' = CallOf("addGoal", <<f, Num(now)>>)
          /\ gmGoals' = addGoal(Manager, now, f).goals
          /\ localStorage' = addGoal(Manager, now, f).item
          /\ gmRet' = addGoal(Manager, now, f).ret
    /\ UNCHANGED <<engineVars, uiVars, storageService, storageFails>>

\* the ids a caller may pass: a clock value, or what addGoal just returned
RemoveArgs ==
    { Num(now) : now \in 1 .. MaxClock }
        \cup (IF gmCall.op = "addGoal" THEN {gmRet} ELSE {})

RemoveGoal ==
    /\ pc = "app"
    /\ \E goalId \in RemoveArgs :
          /\ gmCall' = CallOf("removeGoal", <<goalId>>)
          /\ gmGoals' = removeGoal(Manager, goalId).goals
          /\ localStorage' = removeGoal(Manager, goalId).item
          /\ gmRet' = removeGoal(Manager, goalId).ret
    /\ UNCHANGED <<engineVars, uiVars, storageService, storageFails>>

GetAllGoals ==
    /\ pc = "app"
    /\ gmCall' = CallOf("getAllGoals", <<>>)
    /\ gmRet' = getAllGoals(Manager).ret
    /\ UNCHANGED <<engineVars, uiVars, gmGoals, storageService, localStorage,
                   storageFails>>

GetGoalCount ==
    /\ pc = "app"
    /\ gmCall' = CallOf("getGoalCount", <<>>)
    /\ gmRet' = getGoalCount(Manager).ret
    /\ UNCHANGED <<engineVars, uiVars, gmGoals, storageService, localStorage,
                   storageFails>>

ClearAllGoals ==
    /\ pc = "app"
    /\ gmCall' = CallOf("clearAllGoals", <<>>)
    /\ gmGoals' = clearAllGoals(Manager).goals
    /\ localStorage' = clearAllGoals(Manager).item
    /\ gmRet' = clearAllGoals(Manager).ret
    /\ UNCHANGED <<engineVars, uiVars, storageService, storageFails>>

\* storageService.loadGoals() called on the page's StorageService
LoadGoals ==
    /\ pc = "app"
    /\ gmCall' = CallOf("loadGoals", <<>>)
    /\ gmRet' = loadGoals(localStorage, storageFails)
    /\ UNCHANGED <<engineVars, uiVars, gmGoals, storageService, localStorage,
                   storageFails>>

\* the item is written or deleted from outside the page (another version of
\* the application, the browser's developer tools, cleared site data)
ForeignTexts == {Null, InvalidText, EmptyText, NotArrayText, NullText}

ForeignWrite ==
    /\ pc = "app"
    /\ localStorage' \in ForeignTexts
    /\ gmCall' = CallOf("foreign write", <<>>)
    /\ gmRet' = Undefined
    /\ UNCHANGED <<engineVars, uiVars, gmGoals, storageService, storageFails>>

AppNext ==
    \/ Constructor
    \/ LoadFromStorage
    \/ AddGoal
    \/ RemoveGoal
    \/ GetAllGoals
    \/ GetGoalCount
    \/ ClearAllGoals
    \/ LoadGoals
    \/ ForeignWrite

AppSpec == AppInit /\ [][AppNext]_vars

(***************************************************************************)
(* Strings.  A string is the sequence of its characters, each a one-       *)
(* character string; Number to string and parseFloat work on the decimal   *)
(* digits.                                                                 *)
(***************************************************************************)
MaxFractionDigits == 3      \* a numeral is written with at most this many decimals

Digits == <<"0", "1", "2", "3", "4", "5", "6", "7", "8", "9">>
IsDigit(c) == \E k \in 1 .. 10 : Digits[k] = c
DigitValue(c) == (CHOOSE k \in 1 .. 10 : Digits[k] = c) - 1
Whitespace == {" ", "\n"}

RECURSIVE NatToChars(_)
NatToChars(n) ==
    IF n < 10 THEN <<Digits[n + 1]>>
    ELSE Append(NatToChars(n \div 10), Digits[(n % 10) + 1])

\* the decimals of r / d (r < d), until the remainder is 0 or k are written
RECURSIVE FractionChars(_, _, _)
FractionChars(r, d, k) ==
    IF r = 0 \/ k = 0 THEN <<>>
    ELSE <<Digits[((r * 10) \div d) + 1]>>
             \o FractionChars((r * 10) % d, d, k - 1)

\* String(v) for a number v
NumberToString(v) ==
    IF IsNaN(v) THEN <<"N", "a", "N">>
    ELSE IF ~IsFinite(v)
    THEN (IF v = NegInf THEN <<"-">> ELSE <<>>)
             \o <<"I", "n", "f", "i", "n", "i", "t", "y">>
    ELSE LET a == Abs(v.n)
         IN  (IF v.n < 0 THEN <<"-">> ELSE <<>>)
                 \o NatToChars(a \div v.d)
                 \o (IF a % v.d = 0 THEN <<>>
                     ELSE <<".">> \o FractionChars(a % v.d, v.d,
                                                   MaxFractionDigits))

RECURSIVE TrimStart(_)
TrimStart(s) ==
    IF s # <<>> /\ Head(s) \in Whitespace THEN TrimStart(Tail(s)) ELSE s

RECURSIVE TrimEnd(_)
TrimEnd(s) ==
    IF s # <<>> /\ s[Len(s)] \in Whitespace
    THEN TrimEnd(SubSeq(s, 1, Len(s) - 1)) ELSE s

Trim(s) == TrimEnd(TrimStart(s))                 \* String.prototype.trim

\* the longest prefix of s made of digits
RECURSIVE DigitRun(_)
DigitRun(s) ==
    IF s # <<>> /\ IsDigit(Head(s)) THEN <<Head(s)>> \o DigitRun(Tail(s))
    ELSE <<>>

RECURSIVE DigitsValue(_, _)
DigitsValue(s, acc) ==
    IF s = <<>> THEN acc
    ELSE DigitsValue(Tail(s), acc * 10 + DigitValue(Head(s)))

RECURSIVE Pow10(_)
Pow10(k) == IF k = 0 THEN 1 ELSE 10 * Pow10(k - 1)

\* parseFloat(s): leading whitespace, a sign, digits, a point and digits;
\* whatever follows is ignored, and NaN when there is no digit
parseFloat(s) ==
    LET t == TrimStart(s)
        signed == t # <<>> /\ Head(t) \in {"-", "+"}
        negative == t # <<>> /\ Head(t) = "-"
        u == IF signed THEN Tail(t) ELSE t
        whole == DigitRun(u)
        rest == SubSeq(u, Len(whole) + 1, Len(u))
        decimals == IF rest # <<>> /\ Head(rest) = "."
                    THEN DigitRun(Tail(rest)) ELSE <<>>
        magnitude == Frac(DigitsValue(whole \o decimals, 0),
                          Pow10(Len(decimals)))
    IN  IF Len(u) >= 8 /\ SubSeq(u, 1, 8) = NumberToString(PosInf)
        THEN (IF negative THEN NegInf ELSE PosInf)
        ELSE IF whole = <<>> /\ decimals = <<>> THEN NaN
        ELSE IF negative THEN Neg(magnitude) ELSE magnitude

\* parseFloat(v) for a value that is not a string: String(v) is parsed, and
\* 'null' and 'undefined' have no digit
ParseFloatOf(v) ==
    IF IsNumber(v) THEN parseFloat(NumberToString(v)) ELSE NaN

(***************************************************************************)
(* Exporter (src/js/exporter.js) and Importer (src/js/app.js).  A thrown   *)
(* Error is the value ImportError; a goal's name is a string.              *)
(***************************************************************************)
ImportError == [throws |-> "Error"]

\* o.f, undefined when the object has no such property
Field(o, f) == IF f \in DOMAIN o THEN o[f] ELSE Undefined

Includes(s, c) == \E k \in 1 .. Len(s) : s[k] = c

\* s.split(sep) for a one-character separator
RECURSIVE Split(_, _)
Split(s, sep) ==
    IF ~Includes(s, sep) THEN <<s>>
    ELSE LET k == CHOOSE j \in 1 .. Len(s) :
                      s[j] = sep /\ \A h \in 1 .. j - 1 : s[h] # sep
         IN  <<SubSeq(s, 1, k - 1)>> \o Split(SubSeq(s, k + 1, Len(s)), sep)

\* cells.join(sep)
RECURSIVE Join(_, _)
Join(cells, sep) ==
    IF cells = <<>> THEN <<>>
    ELSE IF Len(cells) = 1 THEN cells[1]
    ELSE cells[1] \o <<sep>> \o Join(Tail(cells), sep)

\* value.replace(/"/g, '""')
RECURSIVE DoubleQuotes(_)
DoubleQuotes(s) ==
    IF s = <<>> THEN <<>>
    ELSE (IF Head(s) = "\"" THEN <<"\"", "\"">> ELSE <<Head(s)>>)
             \o DoubleQuotes(Tail(s))

\* exporter.js lines 137-142
escapeCSV(value) ==
    IF Includes(value, ",") \/ Includes(value, "\"") \/ Includes(value, "\n")
    THEN <<"\"">> \o DoubleQuotes(value) \o <<"\"">>
    ELSE value

\* the ten header texts, each written as one letter: they hold no comma, no
\* quote and no line break
Headers == [k \in 1 .. 10 |-> <<"h">>]

\* exporter.js lines 43-69: the cells of the row of one goal
ExportRow(goal) ==
    LET stepUpRate == IF Falsy(Field(goal, "stepUpRate")) THEN Zero
                      ELSE goal.stepUpRate
        futureValue == calculateInflationAdjustedAmount(
                           goal.currentPrice, goal.inflationRate, goal.years)
        monthlySIP == calculateMonthlySIP(futureValue, goal.years,
                                          goal.expectedReturn, stepUpRate)
        totalInvestment == calculateTotalInvestment(monthlySIP, goal.years,
                                                    stepUpRate)
        wealthGain == calculateWealthGain(futureValue, totalInvestment)
    IN  <<escapeCSV(goal.name),
          NumberToString(goal.currentPrice),
          NumberToString(goal.inflationRate),
          NumberToString(goal.years),
          NumberToString(goal.expectedReturn),
          NumberToString(stepUpRate),
          NumberToString(futureValue),
          NumberToString(monthlySIP),
          NumberToString(totalInvestment),
          NumberToString(wealthGain)>>

\* exporter.js lines 23-80
exportToCSV(goals_) ==
    IF ~IsArray(goals_) \/ goals_.array = <<>> THEN <<>>
    ELSE Join(<<Join(Headers, ",")>>
                  \o [k \in 1 .. Len(goals_.array) |->
                          Join(ExportRow(goals_.array[k]), ",")],
              "\n")

\* exporter.js lines 87-89
exportToJSON(goals_) == JSONStringify(goals_)

\* app.js lines 744-771
RECURSIVE ParseCSVLineLoop(_, _)
ParseCSVLineLoop(line, st) ==
    IF st.i > Len(line) THEN Append(st.values, Trim(st.current))
    ELSE LET char == line[st.i]
             nextIsQuote == st.i < Len(line) /\ line[st.i + 1] = "\""
         IN  ParseCSVLineLoop(line,
                 IF char = "\""
                 THEN IF st.inQuotes /\ nextIsQuote
                      THEN [st EXCEPT !.current = Append(@, "\""),
                                      !.i = @ + 2]
                      ELSE [st EXCEPT !.inQuotes = ~@, !.i = @ + 1]
                 ELSE IF char = "," /\ ~st.inQuotes
                 THEN [st EXCEPT !.values = Append(@, Trim(st.current)),
                                 !.current = <<>>, !.i = @ + 1]
                 ELSE [st EXCEPT !.current = Append(@, char), !.i = @ + 1])

parseCSVLine(line) ==
    ParseCSVLineLoop(line, [values |-> <<>>, current |-> <<>>,
                            inQuotes |-> FALSE, i |-> 1])

\* app.js lines 816-836: validateGoal throws
InvalidGoal(goal) ==
    \/ Trim(goal.name) = <<>>
    \/ IsNaN(goal.currentPrice) \/ Le(goal.currentPrice, Zero)
    \/ IsNaN(goal.inflationRate) \/ Lt(goal.inflationRate, Zero)
    \/ IsNaN(goal.years) \/ Le(goal.years, Zero)
    \/ IsNaN(goal.expectedReturn) \/ Le(goal.expectedReturn, Zero)

\* app.js lines 711-733: the loop over the data lines, dataLines[st.i] next
RECURSIVE ParseCSVLoop(_, _, _)
ParseCSVLoop(dataLines, now, st) ==
    IF st.i >= Len(dataLines) THEN Arr(st.goals)
    ELSE LET line == Trim(dataLines[st.i + 1])
             values == parseCSVLine(line)
             goal == [id |-> Num(now + st.i),
                      name |-> values[1],
                      currentPrice |-> parseFloat(values[2]),
                      inflationRate |-> parseFloat(values[3]),
                      years |-> parseFloat(values[4]),
                      expectedReturn |-> parseFloat(values[5])]
         IN  IF line = <<>>
             THEN ParseCSVLoop(dataLines, now, [st EXCEPT !.i = @ + 1])
             ELSE IF Len(values) < 5 THEN ImportError
             ELSE IF InvalidGoal(goal) THEN ImportError
             ELSE ParseCSVLoop(dataLines, now,
                               [i |-> st.i + 1, goals |-> Append(st.goals, goal)])

\* app.js lines 700-736; now is what Date.now() returns
parseCSV(csvContent, now) ==
    LET lines == Split(Trim(csvContent), "\n")
    IN  IF Len(lines) < 2 THEN ImportError
        ELSE ParseCSVLoop(Tail(lines), now, [i |-> 0, goals |-> <<>>])

\* app.js lines 792-804: the object built for data[index + 1]
ParsedJSONGoal(goal, index, now) ==
    [id |-> IF Falsy(Field(goal, "id")) THEN Num(now + index) ELSE goal.id,
     name |-> goal.name,
     currentPrice |-> ParseFloatOf(Field(goal, "currentPrice")),
     inflationRate |-> ParseFloatOf(Field(goal, "inflationRate")),
     years |-> ParseFloatOf(Field(goal, "years")),
     expectedReturn |-> ParseFloatOf(Field(goal, "expectedReturn"))]

\* app.js lines 779-807
parseJSON(jsonContent, now) ==
    IF JSONParseThrows(jsonContent) THEN ImportError
    ELSE LET data == JSONParse(jsonContent)
         IN  IF ~IsArray(data) THEN ImportError
             ELSE IF \E k \in 1 .. Len(data.array) :
                         InvalidGoal(ParsedJSONGoal(data.array[k], k - 1, now))
             THEN ImportError
             ELSE Arr([k \in 1 .. Len(data.array) |->
                          ParsedJSONGoal(data.array[k], k - 1, now)])

(***************************************************************************)
(* Export followed by import: the goals are exported to a text and the     *)
(* text is parsed again.                                                   *)
(***************************************************************************)
MaxExported == 2        \* goals in an exported list

\* names: plain, with a comma, with quotes, with an inner space, with a
\* line break
ExportedNames ==
    { <<"a">>, <<"a", ",", "b">>, <<"\"", "a", "\"">>, <<"a", " ", "b">>,
      <<"a", "\n", "b">> }

\* valid goals as GoalManager holds them (positive price, years and return,
\* non-negative inflation and step-up)
ExportedGoals ==
    { [id |-> One, name |-> name, currentPrice |-> g.currentPrice,
       inflationRate |-> g.inflationRate, years |-> g.years,
       expectedReturn |-> g.expectedReturn, stepUpRate |-> g.stepUpRate] :
          name \in ExportedNames,
          g \in { Goal(Num(48), Zero, Frac(1, 4), Num(1200), Zero),
                  Goal(Frac(201, 2), Num(100), One, Num(600), Num(100)) } }

PortInit ==
    /\ pc = "export"
    /\ call = CallOf("none", <<>>)
    /\ ret = Zero
    /\ low = Zero /\ high = Zero /\ initialSIP = Zero /\ iters = 0
    /\ goals = <<>> /\ idx = 0
    /\ totalSIP = Zero /\ totalFutureValue = Zero /\ totalInvested = Zero
    /\ gmGoals = Arr(<<>>) /\ storageService = Null
    /\ localStorage = Null /\ storageFails = FALSE
    /\ \E list \in SeqsUpTo(ExportedGoals, MaxExported),
          op \in {"exportToCSV", "exportToJSON"} :
          gmCall = CallOf(op, <<Arr(list)>>)
    /\ gmRet = Undefined
    /\ UIInit

ExportToCSV ==
    /\ pc = "export" /\ gmCall.op = "exportToCSV"
    /\ pc' = "exported"
    /\ gmRet' = exportToCSV(gmCall.args[1])
    /\ UNCHANGED <<uiVars, call, ret, searchVars, summaryVars, gmGoals,
                   storageService, localStorage, storageFails, gmCall>>

ExportToJSON ==
    /\ pc = "export" /\ gmCall.op = "exportToJSON"
    /\ pc' = "exported"
    /\ gmRet' = exportToJSON(gmCall.args[1])
    /\ UNCHANGED <<uiVars, call, ret, searchVars, summaryVars, gmGoals,
                   storageService, localStorage, storageFails, gmCall>>

ParseCSV ==
    /\ pc = "exported" /\ gmCall.op = "exportToCSV"
    /\ pc' = "imported"
    /\ gmCall' = CallOf("parseCSV", <<gmRet>>)
    /\ \E now \in 1 .. MaxClock : gmRet' = parseCSV(gmRet, now)
    /\ UNCHANGED <<uiVars, call, ret, searchVars, summaryVars, gmGoals,
                   storageService, localStorage, storageFails>>

ParseJSON ==
    /\ pc = "exported" /\ gmCall.op = "exportToJSON"
    /\ pc' = "imported"
    /\ gmCall' = CallOf("parseJSON", <<gmRet>>)
    /\ \E now \in 1 .. MaxClock : gmRet' = parseJSON(gmRet, now)
    /\ UNCHANGED <<uiVars, call, ret, searchVars, summaryVars, gmGoals,
                   storageService, localStorage, storageFails>>

PortNext == ExportToCSV \/ ExportToJSON \/ ParseCSV \/ ParseJSON

PortSpec == PortInit /\ [][PortNext]_vars

(***************************************************************************)
(* ThemeManager (src/js/theme.js) over the theme item of localStorage.     *)
(***************************************************************************)
Light == Str("light")
Dark == Str("dark")

\* StorageService.isAvailable(), storage.js lines 79-89
isAvailable(fails) == ~fails

\* theme.js lines 25-43
loadTheme(service, fails, item, dark) ==
    IF service # Null /\ isAvailable(fails) /\ item \in {Light, Dark}
    THEN item
    ELSE IF dark THEN Dark ELSE Light

\* theme.js lines 49-57 with this.currentTheme = theme: the item left stored
saveTheme_skipped(service, fails, item, theme) == item

saveTheme(service, fails, item, theme) ==
    IF service # Null /\ isAvailable(fails) THEN theme ELSE item

\* what setTheme may be called with, and what may be stored when the page
\* is opened
ThemeArgs == {Light, Dark, Str("blue"), Null}

ThemeInit ==
    /\ pc = "theme"
    /\ call = CallOf("none", <<>>)
    /\ ret = Zero
    /\ low = Zero /\ high = Zero /\ initialSIP = Zero /\ iters = 0
    /\ goals = <<>> /\ idx = 0
    /\ totalSIP = Zero /\ totalFutureValue = Zero /\ totalInvested = Zero
    /\ gmGoals = Arr(<<>>) /\ localStorage = Null
    /\ chart = Null /\ pendingImport = Null
    /\ storageService \in {Null, RealService}
    /\ storageFails \in BOOLEAN
    /\ themeItem \in ThemeArgs
    /\ prefersDark \in BOOLEAN
    /\ currentTheme = loadTheme(storageService, storageFails, themeItem,
                                prefersDark)
    /\ gmCall = CallOf("new ThemeManager", <<storageService>>)
    /\ gmRet = Undefined

themeFrame ==
    <<engineVars, gmGoals, storageService, localStorage, storageFails, chart,
      pendingImport>>

\* new ThemeManager(storageService), theme.js lines 14-18 (the page is
\* loaded again)
ThemeConstructor ==
    /\ pc = "theme"
    /\ gmCall' = CallOf("new ThemeManager", <<storageService>>)
    /\ currentTheme' = loadTheme(storageService, storageFails, themeItem,
                                 prefersDark)
    /\ gmRet' = Undefined
    /\ UNCHANGED <<themeFrame, themeItem, prefersDark>>

\* theme.js lines 83-88
ToggleTheme ==
    /\ pc = "theme"
    /\ gmCall' = CallOf("toggleTheme", <<>>)
    /\ currentTheme' = (IF currentTheme = Light THEN Dark ELSE Light)
    /\ themeItem' = saveTheme(storageService, storageFails, themeItem,
                              currentTheme')
    /\ gmRet' = currentTheme'
    /\ UNCHANGED <<themeFrame, prefersDark>>

\* theme.js lines 103-112
SetTheme ==
    /\ pc = "theme"
    /\ \E theme \in ThemeArgs :
          /\ gmCall' = CallOf("setTheme", <<theme>>)
          /\ IF theme # Light /\ theme # Dark
             THEN /\ gmRet' = False
                  /\ UNCHANGED <<currentTheme, themeItem>>
             ELSE /\ currentTheme' = theme
                  /\ themeItem' = saveTheme(storageService, storageFails,
                                            themeItem, theme)
                  /\ gmRet' = True
    /\ UNCHANGED <<themeFrame, prefersDark>>

\* theme.js lines 94-96
GetCurrentTheme ==
    /\ pc = "theme"
    /\ gmCall' = CallOf("getCurrentTheme", <<>>)
    /\ gmRet' = currentTheme
    /\ UNCHANGED <<themeFrame, themeVars>>

\* the user changes the colour scheme of the system
PreferenceChange ==
    /\ pc = "theme"
    /\ prefersDark' = ~prefersDark
    /\ UNCHANGED <<themeFrame, currentTheme, themeItem, gmCall, gmRet>>

ThemeNext ==
    \/ ThemeConstructor
    \/ ToggleTheme
    \/ SetTheme
    \/ GetCurrentTheme
    \/ PreferenceChange

ThemeSpec == ThemeInit /\ [][ThemeNext]_vars

(***************************************************************************)
(* ChartManager (src/js/charts.js).  A Chart object is the record of what  *)
(* it draws and of whether its destroy() has been called.                  *)
(***************************************************************************)
MaxCharted == 2         \* goals handed to createChart

ChartGoals == {SharedGoalA, SharedGoalB}

\* the canvas of the page, and an id no element has
CanvasIds == {Str("investment-chart"), Str("non-existent-canvas")}
CanvasFound(canvasId) == canvasId = Str("investment-chart")

\* new Chart(ctx, ...), charts.js lines 131 and 240
NewChart(view, goals_, theme) ==
    [view |-> view, goals |-> goals_, dark |-> (theme = Dark),
     destroyed |-> FALSE]

\* this.chart.destroy() of the chart library
Destroyed(chart_) == [chart_ EXCEPT !.destroyed = TRUE]

\* charts.js lines 93-118: the value of this.chart when createChart returns
createChart(chart_, goals_, canvasId, theme) ==
    IF ~CanvasFound(canvasId) THEN chart_                      \* line 96
    ELSE IF ~IsArray(goals_) \/ goals_.array = <<>>            \* line 108
    THEN (IF chart_ # Null THEN Destroyed(chart_) ELSE chart_)
    ELSE IF Len(goals_.array) > 1
    THEN NewChart("aggregated", goals_, theme)
    ELSE NewChart("single", goals_, theme)

\* charts.js lines 323-328
destroy(chart_) == Null

ChartInit ==
    /\ pc = "chart"
    /\ call = CallOf("none", <<>>)
    /\ ret = Zero
    /\ low = Zero /\ high = Zero /\ initialSIP = Zero /\ iters = 0
    /\ goals = <<>> /\ idx = 0
    /\ totalSIP = Zero /\ totalFutureValue = Zero /\ totalInvested = Zero
    /\ gmGoals = Arr(<<>>) /\ storageService = Null
    /\ localStorage = Null /\ storageFails = FALSE
    /\ gmCall = CallOf("new ChartManager", <<>>)
    /\ gmRet = Undefined
    /\ UIInit

chartFrame == <<engineVars, gmGoals, storageService, localStorage,
                storageFails, themeVars, pendingImport>>

CreateChart ==
    /\ pc = "chart"
    /\ \E list \in SeqsUpTo(ChartGoals, MaxCharted), canvasId \in CanvasIds,
          theme \in {Light, Dark} :
          /\ gmCall' = CallOf("createChart", <<Arr(list), canvasId, theme>>)
          /\ chart' = createChart(chart, Arr(list), canvasId, theme)
    /\ gmRet' = Undefined
    /\ UNCHANGED chartFrame

Destroy ==
    /\ pc = "chart"
    /\ gmCall' = CallOf("destroy", <<>>)
    /\ chart' = destroy(chart)
    /\ gmRet' = Undefined
    /\ UNCHANGED chartFrame

ChartNext == CreateChart \/ Destroy

ChartSpec == ChartInit /\ [][ChartNext]_vars

(***************************************************************************)
(* Properties.  Returned(op) is the state in which a call of op has        *)
(* returned; the arguments of the call are call.args and its result ret.   *)
(***************************************************************************)
Returned(op) == pc = "done" /\ call.op = op
Arg(k) == call.args[k]
Positive(x) == Gt(x, Zero)
NonNegative(x) == Ge(x, Zero)

\* the exact solution of calculateStepUpFutureValue(x, ...) = targetAmount
ExactStepUpSIP(targetAmount, years, annualRate, stepUpRate) ==
    Div(targetAmount, calculateStepUpFutureValue(One, years, annualRate, stepUpRate))

\* C1: for targetAmount > 0, years > 0, annualRate > 0 and stepUpRate >= 0 the
\* amount calculateStepUpSIP returns is within 1.5 of the exact solution
\* targetAmount / calculateStepUpFutureValue(1, ...), and feeding it back into
\* calculateStepUpFutureValue gives the target within 1.5 times
\* calculateStepUpFutureValue(1, ...).
C1_RoundTrip ==
    (/\ Returned("calculateStepUpSIP")
     /\ Positive(Arg(1)) /\ Positive(Arg(2)) /\ Positive(Arg(3))
     /\ NonNegative(Arg(4)))
    => LET unit == calculateStepUpFutureValue(One, Arg(2), Arg(3), Arg(4))
           achieved == calculateStepUpFutureValue(ret, Arg(2), Arg(3), Arg(4))
       IN  /\ Le(MathAbs(Sub(ret, ExactStepUpSIP(Arg(1), Arg(2), Arg(3), Arg(4)))),
                 Frac(3, 2))
           /\ Le(MathAbs(Sub(achieved, Arg(1))), Mul(Frac(3, 2), unit))

\* C2: every call of calculateStepUpSIP leaves its while loop and returns,
\* whatever the arguments.
C2_SearchTerminates == (pc = "search") ~> (pc = "done")

\* C3: for targetAmount > 0, years > 0 and annualRate > 0,
\* calculateStepUpSIP(targetAmount, years, annualRate, 0) differs from the
\* level amount calculateMonthlySIP(targetAmount, years, annualRate, 0) by at
\* most 1.
C3_LevelReduction ==
    (/\ Returned("calculateStepUpSIP")
     /\ Positive(Arg(1)) /\ Positive(Arg(2)) /\ Positive(Arg(3))
     /\ StrictEq(Arg(4), Zero))
    => Le(MathAbs(Sub(ret, calculateMonthlySIP(Arg(1), Arg(2), Arg(3), Zero))),
          One)

\* the unrounded level amount of calculateMonthlySIP, line 62
ExactLevelSIP(targetAmount, years, annualRate) ==
    Div(targetAmount,
        futureValueFactor(Div(Div(annualRate, Num(12)), Num(100)),
                          Mul(years, Num(12))))

StepUpSIPCase ==
    /\ Returned("calculateStepUpSIP")
    /\ Positive(Arg(1)) /\ Positive(Arg(2)) /\ Positive(Arg(3)) /\ Positive(Arg(4))

Unfloored ==
    LET t == SummaryTotals(Arg(1))
    IN  [totalInvested |-> t.totalInvested,
         totalWealthGained |-> calculateWealthGain(t.totalFutureValue, t.totalInvested)]

\* C5 as stated: for any goal list, goals with negative, zero or NaN fields
\* included, the returned summary has totalInvested >= 0 and wealth gain >= 0.
C5_NonNegative ==
    Returned("calculateSummary")
    => NonNegative(ret.totalInvested) /\ NonNegative(ret.totalWealthGained)

\* C5 amended: the returned totalInvested and wealth gain are never negative:
\* each is >= 0 unless its running total is NaN, and then it is NaN.
C5_FlooredOrNaN ==
    Returned("calculateSummary")
    => \A f \in {"totalInvested", "totalWealthGained"} :
           IF IsNaN(Unfloored[f]) THEN IsNaN(ret[f]) ELSE NonNegative(ret[f])

\* a summary whose total invested was negative before the floor and is
\* returned as 0
C5_Witness ==
    /\ Returned("calculateSummary")
    /\ Lt(Unfloored.totalInvested, Zero)
    /\ StrictEq(ret.totalInvested, Zero)

\* the sum over gs of calculateInflationAdjustedAmount(goal)
RECURSIVE SumFutureValue(_)
SumFutureValue(gs) ==
    IF gs = <<>> THEN Zero
    ELSE LET goal == gs[Len(gs)]
         IN  Add(SumFutureValue(SubSeq(gs, 1, Len(gs) - 1)),
                 calculateInflationAdjustedAmount(goal.currentPrice,
                                                  goal.inflationRate, goal.years))

\* the sum over gs of the contribution each goal requires
RECURSIVE SumSIP(_)
SumSIP(gs) ==
    IF gs = <<>> THEN Zero
    ELSE LET goal == gs[Len(gs)]
             target == calculateInflationAdjustedAmount(goal.currentPrice,
                                                        goal.inflationRate, goal.years)
         IN  Add(SumSIP(SubSeq(gs, 1, Len(gs) - 1)),
                 calculateMonthlySIP(target, goal.years, goal.expectedReturn,
                                     StepUpRateOf(goal)))

C7_EmptySummary ==
    (Returned("calculateSummary") /\ Arg(1) = <<>>)
    => \A f \in {"totalMonthlySIP", "totalFutureValue",
                 "totalInvested", "totalWealthGain"} :
           f \in DOMAIN ret /\ StrictEq(ret[f], Zero)

\* calculateStepUpFutureValue with the arguments of the call, one replaced
FVWithStepUp(s) == calculateStepUpFutureValue(Arg(1), Arg(2), Arg(3), s)
FVWithSIP(a) == calculateStepUpFutureValue(a, Arg(2), Arg(3), Arg(4))

\* the amounts the model evaluates over the horizon of the call
ComparableSIPs ==
    {a \in SIPs : CallOf("calculateStepUpFutureValue",
                         <<a, Arg(2), Arg(3), Arg(4)>>) \in FutureValueCalls}

StepUpRateCase ==
    /\ Returned("calculateStepUpFutureValue")
    /\ Positive(Arg(1)) /\ Positive(Arg(2))
    /\ NonNegative(Arg(3)) /\ NonNegative(Arg(4))

\* C8 as stated: for initialSIP > 0, years > 0, annualRate >= 0 and step-up
\* rates 0 <= s1 < s2, the future value at s2 is strictly greater than the
\* future value at s1.
C8_StrictlyIncreasing ==
    StepUpRateCase
    => \A s2 \in StepUps : Lt(Arg(4), s2) => Gt(FVWithStepUp(s2), ret)

\* C8 amended: under the same conditions the future value at s2 is strictly
\* greater than at s1 when years > 1, and equal to it when years <= 1 (the
\* increase is applied after each full year and never reaches a contribution).
C8_IncreasingAfterFirstYear ==
    StepUpRateCase
    => \A s2 \in StepUps :
           Lt(Arg(4), s2) => IF Gt(Arg(2), One)
                             THEN Gt(FVWithStepUp(s2), ret)
                             ELSE StrictEq(FVWithStepUp(s2), ret)

\* a call over more than one year whose result a higher step-up rate exceeds
C8_Witness ==
    /\ StepUpRateCase
    /\ Gt(Arg(2), One)
    /\ \E s2 \in StepUps : Lt(Arg(4), s2) /\ Gt(FVWithStepUp(s2), ret)

\* C9 as stated: for every years, annualRate and stepUpRate,
\* calculateStepUpFutureValue returns 0 for initialSIP = 0 and is strictly
\* increasing in initialSIP.
C9_StrictlyIncreasing ==
    Returned("calculateStepUpFutureValue")
    => /\ StrictEq(Arg(1), Zero) => StrictEq(ret, Zero)
       /\ \A b \in ComparableSIPs : Lt(Arg(1), b) => Lt(ret, FVWithSIP(b))

\* C9 amended: for years > 0, annualRate >= 0 and stepUpRate >= 0 the
\* function returns 0 for initialSIP = 0 and is strictly increasing in
\* initialSIP; for years <= 0 or NaN it returns 0 for every initialSIP.
C9_IncreasingForPositiveYears ==
    (/\ Returned("calculateStepUpFutureValue")
     /\ NonNegative(Arg(3)) /\ NonNegative(Arg(4)))
    => IF Positive(Arg(2))
       THEN /\ StrictEq(Arg(1), Zero) => StrictEq(ret, Zero)
            /\ \A b \in ComparableSIPs : Lt(Arg(1), b) => Lt(ret, FVWithSIP(b))
       ELSE StrictEq(ret, Zero)

\* a call over a positive horizon whose result a larger contribution exceeds
C9_Witness ==
    /\ Returned("calculateStepUpFutureValue")
    /\ Positive(Arg(1)) /\ Positive(Arg(2)) /\ Positive(ret)
    /\ \E b \in ComparableSIPs : Lt(Arg(1), b) /\ Lt(ret, FVWithSIP(b))

ZeroInflationCase ==
    /\ Returned("calculateInflationAdjustedAmount")
    /\ StrictEq(Arg(2), Zero)
    /\ ~IsNaN(Arg(1)) /\ ~IsNaN(Arg(3))

\* C10 as stated: with 0% inflation calculateInflationAdjustedAmount returns
\* currentPrice, for every currentPrice (a number) and every years (finite).
C10_SameAmount == ZeroInflationCase => StrictEq(ret, Arg(1))

\* C10 amended: with 0% inflation and finite years the result is
\* Math.round(currentPrice), which is currentPrice when it is a whole number;
\* a currentPrice that is not whole is returned unchanged only when years = 0.
C10_RoundedAmount ==
    ZeroInflationCase
    => /\ StrictEq(ret, IF StrictEq(Arg(3), Zero) THEN Arg(1) ELSE MathRound(Arg(1)))
       /\ IsInteger(Arg(1)) => StrictEq(ret, Arg(1))

\* a price that is not whole came back rounded
C10_Witness ==
    /\ ZeroInflationCase
    /\ ~IsInteger(Arg(1)) /\ ~StrictEq(Arg(3), Zero)
    /\ StrictEq(ret, MathRound(Arg(1))) /\ ~StrictEq(ret, Arg(1))

\* C11: calculateInflationAdjustedAmount(P, r, 0) is P and
\* calculateInflationAdjustedAmount(0, r, Y) is 0, for every P, r and Y: the
\* price comes back as it was passed (the same number, NaN matching NaN),
\* not rounded.
C11_ZeroIdentity ==
    Returned("calculateInflationAdjustedAmount")
    => /\ Arg(3) = Zero => ret = Arg(1)
       /\ Arg(1) = Zero => ret = Zero

\* a price that is not whole came back unrounded from a 0-year call
C11_Witness ==
    /\ Returned("calculateInflationAdjustedAmount")
    /\ Arg(3) = Zero /\ IsFinite(Arg(1)) /\ ~IsInteger(Arg(1))
    /\ ret = Arg(1) /\ ret # MathRound(Arg(1))

DegenerateSIPCase ==
    /\ Returned("calculateMonthlySIP")
    /\ \/ StrictEq(Arg(1), Zero)
       \/ StrictEq(Mul(Arg(2), Num(12)), Zero)
       \/ StrictEq(Div(Div(Arg(3), Num(12)), Num(100)), Zero)

\* C12 as stated: calculateMonthlySIP returns exactly 0 whenever
\* targetAmount == 0, years * 12 == 0 or annualRate / 12 / 100 == 0, and no
\* call of it ever evaluates a division by zero.
C12_NoDivisionByZero ==
    Returned("calculateMonthlySIP")
    => /\ DegenerateSIPCase => StrictEq(ret, Zero)
       /\ Zero \notin MonthlySIPDivisors(Arg(1), Arg(2), Arg(3), Arg(4))

\* C12 amended: in the three degenerate cases calculateMonthlySIP returns
\* exactly 0 and evaluates no division by zero (it divides by the literals
\* 12 and 100 only).
C12_DegenerateReturnsZero ==
    DegenerateSIPCase
    => /\ StrictEq(ret, Zero)
       /\ MonthlySIPDivisors(Arg(1), Arg(2), Arg(3), Arg(4)) = {Num(12), Num(100)}

\* a call with a zero rate and a target that is not zero returned 0
C12_Witness ==
    /\ DegenerateSIPCase
    /\ Positive(Arg(1)) /\ Positive(Arg(2)) /\ StrictEq(Arg(3), Zero)
    /\ StrictEq(ret, Zero)

TotalInvestmentCase ==
    /\ Returned("calculateTotalInvestment")
    /\ Positive(Arg(1)) /\ Positive(Arg(2)) /\ Positive(Arg(3))

\* C13 as stated: for monthlySIP > 0, years > 0 and stepUpRate > 0,
\* calculateTotalInvestment returns strictly more than monthlySIP * 12 * years.
C13_ExceedsFlat ==
    TotalInvestmentCase => Gt(ret, Mul(Mul(Arg(1), Num(12)), Arg(2)))

\* C13 amended: under the same conditions calculateTotalInvestment returns
\* strictly more than monthlySIP * 12 * years unless years = 1, where it
\* returns exactly monthlySIP * 12.
C13_ExceedsFlatExceptOneYear ==
    TotalInvestmentCase
    => IF StrictEq(Arg(2), One)
       THEN StrictEq(ret, Mul(Arg(1), Num(12)))
       ELSE Gt(ret, Mul(Mul(Arg(1), Num(12)), Arg(2)))

\* a step-up call over more than one year returned more than the flat total
C13_Witness ==
    /\ TotalInvestmentCase
    /\ Gt(Arg(2), One)
    /\ Gt(ret, Mul(Mul(Arg(1), Num(12)), Arg(2)))

\* what a call returns when it is the only call ever made
ResultAlone(c) ==
    CASE c.op = "calculateInflationAdjustedAmount" ->
             calculateInflationAdjustedAmount(c.args[1], c.args[2], c.args[3])
      [] c.op = "calculateStepUpFutureValue" ->
             calculateStepUpFutureValue(c.args[1], c.args[2], c.args[3], c.args[4])
      [] c.op = "calculateMonthlySIP" ->
             calculateMonthlySIP(c.args[1], c.args[2], c.args[3], c.args[4])
      [] c.op = "calculateTotalInvestment" ->
             calculateTotalInvestment(c.args[1], c.args[2], c.args[3])
      [] c.op = "calculateStepUpSIP" ->
             calculateStepUpSIP(c.args[1], c.args[2], c.args[3], c.args[4])
      [] c.op = "calculateSummary" -> calculateSummary(c.args[1])

GMReturned(op) == pc = "app" /\ gmCall.op = op

\* the ids of the goals held
HeldIds(goals_) == { goals_.array[k].id : k \in 1 .. Len(goals_.array) }

DistinctIds(goals_) ==
    \A j, k \in 1 .. Len(goals_.array) :
        j # k => StrictNeq(goals_.array[j].id, goals_.array[k].id)

\* C15: the goals held by GoalManager have pairwise distinct ids, whatever
\* Date.now() returns for consecutive addGoal calls.
C15_UniqueIds == IsArray(gmGoals) => DistinctIds(gmGoals)

\* the goal objects held
Held(goals_) == { goals_.array[k] : k \in 1 .. Len(goals_.array) }

\* this step is removeGoal called with the value the addGoal before it returned
RemovesReturnedValue ==
    /\ GMReturned("addGoal") /\ gmRet # TypeError
    /\ gmCall'.op = "removeGoal" /\ gmCall'.args[1] = gmRet

\* C16: removeGoal called with the value returned by addGoal removes the goal
\* just added: the count is again what it was before the add and the goal is
\* no longer among the goals held.
C16_AddRemoveRoundTrip ==
    [][RemovesReturnedValue =>
          /\ Len(gmGoals'.array) = Len(gmGoals.array) - 1
          /\ gmRet \notin Held(gmGoals')]_vars

\* the goals of goals_ whose id is not goalId, in their order
Others(goals_, goalId) ==
    LET other(goal) == StrictNeq(goal.id, goalId)
    IN  SelectSeq(goals_.array, other)

\* C17: removeGoal(goalId) removes at most one goal and leaves every goal
\* with another id in the collection, unchanged and in the same order.
C17_RemovesAtMostOne ==
    [][(gmCall'.op = "removeGoal" /\ IsArray(gmGoals)) =>
          /\ Len(gmGoals'.array) >= Len(gmGoals.array) - 1
          /\ gmGoals'.array = Others(gmGoals, gmCall'.args[1])]_vars

\* what a new GoalManager over the same storage holds after loadFromStorage
Reloaded == loadFromStorage([Manager EXCEPT !.goals = Arr(<<>>)]).goals

\* the manager persists to a StorageService whose saveGoals succeeds
Persisting == pc = "app" /\ storageService = RealService /\ ~storageFails

\* C18: with a storage service whose saveGoals succeeds, after every addGoal,
\* removeGoal and clearAllGoals a new GoalManager that loads from the same
\* storage holds exactly the goals held in memory, in the same order.
C18_PersistedEqualsMemory ==
    (Persisting /\ gmCall.op \in {"addGoal", "removeGoal", "clearAllGoals"})
        => Reloaded = gmGoals

\* loadFromStorage has just run on a service whose loadGoals() returned null
LoadedNull ==
    /\ GMReturned("loadFromStorage")
    /\ IsMock(storageService) /\ storageService.mock = Null

\* C19: after loadFromStorage with loadGoals() returning null, getGoalCount()
\* returns 0 and addGoal and getAllGoals do not fail.
C19_ToleratesNull ==
    LoadedNull =>
        /\ getGoalCount(Manager).ret = Zero
        /\ getAllGoals(Manager).ret # TypeError
        /\ \A now \in 1 .. MaxClock, f \in FormGoals :
               addGoal(Manager, now, f).ret # TypeError

\* nothing usable is stored: no item, a text that is not JSON, JSON that is
\* not an array, or localStorage throwing on access
NothingToLoad == storageFails \/ localStorage \in ForeignTexts

\* the call before this step handed the list in memory to saveGoals, which
\* wrote it
JustSaved == Persisting /\ gmCall.op \in {"addGoal", "clearAllGoals"}

\* C20: loadGoals never throws and always returns an array: [] when there is
\* nothing usable to load, and otherwise the list last written by saveGoals.
C20_LoadGoals ==
    [][gmCall'.op = "loadGoals" =>
          /\ IsArray(gmRet')
          /\ NothingToLoad => gmRet' = Arr(<<>>)
          /\ JustSaved => gmRet' = gmGoals]_vars

(***************************************************************************)
(* Exporter and Importer.                                                  *)
(***************************************************************************)
GoalFields ==
    {"name", "currentPrice", "inflationRate", "years", "expectedReturn",
     "stepUpRate"}

\* parsed is a list of goals with the fields of the goals of original, in
\* the same order
SameGoals(original, parsed) ==
    /\ IsArray(parsed)
    /\ Len(parsed.array) = Len(original.array)
    /\ \A k \in 1 .. Len(original.array), f \in GoalFields :
           Field(parsed.array[k], f) = original.array[k][f]

\* C21: parsing the text to which a list of valid goals was exported (CSV or
\* JSON) gives goals with the same name, currentPrice, inflationRate, years,
\* expectedReturn and stepUpRate, in the same order.
C21_ExportImportRoundTrip ==
    [][pc' = "imported" => SameGoals(gmCall.args[1], gmRet')]_vars

(***************************************************************************)
(* ThemeManager.                                                           *)
(***************************************************************************)
\* the manager has a storage service and localStorage works
ThemeStorageAvailable ==
    pc = "theme" /\ storageService # Null /\ isAvailable(storageFails)

\* the stored theme is the current one, and a new ThemeManager starts with
\* it whatever the system prefers
ThemePersisted ==
    /\ themeItem = currentTheme
    /\ \A dark \in BOOLEAN :
           loadTheme(storageService, storageFails, themeItem, dark)
               = currentTheme

C23_NoChartForEmptyGoals ==
    (pc = "chart" /\ gmCall.op = "createChart" /\ gmCall.args[1] = Arr(<<>>))
        => chart = Null

(***************************************************************************)
(* The search of calculateStepUpSIP, pass by pass.                         *)
(***************************************************************************)
\* the search is between two passes of its loop, on inputs of the domain
SearchCase ==
    /\ pc = "search" /\ call.op = "calculateStepUpSIP"
    /\ Positive(Arg(1)) /\ Positive(Arg(2)) /\ Positive(Arg(3))
    /\ NonNegative(Arg(4))

\* calculateStepUpFutureValue(x, years, annualRate, stepUpRate) of the call
FutureValueAt(x) == calculateStepUpFutureValue(x, Arg(2), Arg(3), Arg(4))

\* C24: for targetAmount > 0, years > 0, annualRate > 0 and stepUpRate >= 0
\* the bracket holds the target before and after every pass of the loop,
\* from the initial high = targetAmount / 12 on:
\* calculateStepUpFutureValue(low) <= targetAmount
\*     <= calculateStepUpFutureValue(high).
C24_BracketInvariant ==
    SearchCase => /\ Le(FutureValueAt(low), Arg(1))
                  /\ Le(Arg(1), FutureValueAt(high))


(***************************************************************************)
(* The search of calculateStepUpSIP in arithmetic of limited precision.    *)
(* A JS number is a binary floating-point number: the result of +, - and / *)
(* is the representable number nearest to the exact one, ties to the even  *)
(* significand.  The model above computes exactly; here the three          *)
(* operations of the search itself (lines 86, 90 and 91) round to          *)
(* MantissaBits significant bits (53 in a double), the exponent unbounded. *)
(***************************************************************************)
MantissaBits == 4

TwoTo(e) == NatPow(Num(2), e)

\* the weight of the last significant bit of a > 0: the power of two q with
\* 2^(MantissaBits-1) <= a / q < 2^MantissaBits
RECURSIVE Quantum(_, _)
Quantum(a, q) ==
    IF Ge(Div(a, q), TwoTo(MantissaBits)) THEN Quantum(a, Mul(q, Num(2)))
    ELSE IF Lt(Div(a, q), TwoTo(MantissaBits - 1)) THEN Quantum(a, Div(q, Num(2)))
    ELSE q

\* the integer nearest to x >= 0, a tie going to the even one
RoundHalfEven(x) ==
    LET f == x.n \div x.d
        r == x.n % x.d
    IN  IF 2 * r < x.d THEN f
        ELSE IF 2 * r > x.d THEN f + 1
        ELSE IF f % 2 = 0 THEN f ELSE f + 1

\* the representable number nearest to x
Fl(x) ==
    IF ~IsFinite(x) \/ x = Zero THEN x
    ELSE LET a == MathAbs(x)
             q == Quantum(a, One)
             v == Mul(Num(RoundHalfEven(Div(a, q))), q)
         IN  IF x.n < 0 THEN Neg(v) ELSE v

\* lines 85-88
FloatSearchInit(targetAmount) ==
    [low |-> Zero, high |-> Fl(Div(targetAmount, Num(12))), initialSIP |-> Zero]
\* line 90: high - low > tolerance
FloatSearchCond(b) == Gt(Fl(Sub(b.high, b.low)), Num(tolerance))
\* lines 91-99
FloatSearchBody(b, targetAmount, years, annualRate, stepUpRate) ==
    LET mid == Fl(Div(Fl(Add(b.low, b.high)), Num(2)))
        fv  == calculateStepUpFutureValue(mid, years, annualRate, stepUpRate)
    IN  IF Lt(fv, targetAmount)
        THEN [low |-> mid, high |-> b.high, initialSIP |-> mid]
        ELSE [low |-> b.low, high |-> mid, initialSIP |-> mid]

\* targets that are representable numbers, below and above 12 * 2^MantissaBits
FloatTargetSeq == <<-5, 6, 12, 13, 24, 26, 48, 60, 96, 120, 144, 192, 240, 384,
                    480, 768, 960>>
FloatTargets == {Fl(Num(FloatTargetSeq[k])) : k \in 1 .. Len(FloatTargetSeq)}
FloatCalls ==
    {CallOf("calculateStepUpSIP", a) :
        a \in {x \in FloatTargets \X {Frac(1, 4), One} \X {Zero, Num(600)}
                       \X {Zero, Num(100)} :
                  InRange(x[1], x[2], x[3])}}

FloatInit == Init /\ call \in FloatCalls

FloatStepUpSIPEnter ==
    /\ pc = "call" /\ call.op = "calculateStepUpSIP"
    /\ pc' = "search"
    /\ LET b == FloatSearchInit(call.args[1])
       IN  low' = b.low /\ high' = b.high /\ initialSIP' = b.initialSIP
    /\ iters' = 0
    /\ UNCHANGED <<appVars, uiVars, call, ret, summaryVars>>

FloatStepUpSIPIterate ==
    /\ pc = "search"
    /\ FloatSearchCond(Bracket)
    /\ LET b == FloatSearchBody(Bracket, call.args[1], call.args[2],
                                call.args[3], call.args[4])
       IN  low' = b.low /\ high' = b.high /\ initialSIP' = b.initialSIP
    /\ iters' = Min(iters + 1, MaxIters)
    /\ UNCHANGED <<appVars, uiVars, pc, call, ret, summaryVars>>

FloatStepUpSIPReturn ==
    /\ pc = "search"
    /\ ~FloatSearchCond(Bracket)
    /\ pc' = "done"
    /\ ret' = MathRound(initialSIP)
    /\ low' = Zero /\ high' = Zero /\ initialSIP' = Zero /\ iters' = 0
    /\ UNCHANGED <<appVars, uiVars, call, summaryVars>>

FloatNext ==
    \/ FloatStepUpSIPEnter
    \/ FloatStepUpSIPIterate
    \/ FloatStepUpSIPReturn

FloatSpec == FloatInit /\ [][FloatNext]_vars

\* the least k >= 0 with x / 2^k <= 1
RECURSIVE Halvings(_)
Halvings(x) == IF Le(x, One) THEN 0 ELSE 1 + Halvings(Div(x, Num(2)))

\* the k of a finite targetAmount
PassesOf(targetAmount) == Halvings(Div(targetAmount, Num(12)))

\* C25: for every finite targetAmount the search makes exactly k passes,
\* k the least non-negative integer with (targetAmount / 12) / 2^k <= 1,
\* whatever years, annualRate and stepUpRate are: after i passes the width
\* high - low is the initial width halved i times, the loop is left after
\* the k-th pass with high - low <= 1, and never runs a (k+1)-th pass; with
\* k = 0 the value to be returned is 0.
C25_FixedIterationCount ==
    (pc = "search" /\ call.op = "calculateStepUpSIP" /\ IsFinite(Arg(1)))
        => LET k == PassesOf(Arg(1))
           IN  /\ iters <= k
               /\ Sub(high, low) = Div(Div(Arg(1), Num(12)), TwoTo(iters))
               /\ Gt(Sub(high, low), Num(tolerance)) <=> iters < k
               /\ k = 0 => MathRound(initialSIP) = Zero


(***************************************************************************)
(* The contributions calculateStepUpFutureValue adds up.                   *)
(***************************************************************************)
\* the contribution of month m of year y at the end of the horizon:
\* initialSIP stepped up y times, compounded for (years - y) * 12 - m months
ContributionOf(initialSIP_, years, annualRate, stepUpRate, y, m) ==
    Mul(Mul(initialSIP_, NatPow(Add(One, Div(stepUpRate, Num(100))), y)),
        MathPow(Add(One, Div(Div(annualRate, Num(12)), Num(100))),
                Sub(Mul(Sub(years, Num(y)), Num(12)), Num(m))))

\* the sum of the first n monthly contributions
RECURSIVE FirstContributions(_, _, _, _, _)
FirstContributions(n, initialSIP_, years, annualRate, stepUpRate) ==
    IF n = 0 THEN Zero
    ELSE Add(FirstContributions(n - 1, initialSIP_, years, annualRate, stepUpRate),
             ContributionOf(initialSIP_, years, annualRate, stepUpRate,
                            (n - 1) \div 12, (n - 1) % 12))

\* years * 12 as an integer (years is a number of quarters)
MonthsOf(years) == (years.n * 12) \div years.d

\* C26: for years > 0, fractional values included, the value
\* calculateStepUpFutureValue returns is the sum of exactly years * 12
\* monthly contributions, that of month m of year y compounded for
\* (years - y) * 12 - m months.
C26_ContributionCount ==
    (pc = "done" /\ call.op = "calculateStepUpFutureValue"
        /\ IsFinite(Arg(2)) /\ Positive(Arg(2)))
        => ret = FirstContributions(MonthsOf(Arg(2)), Arg(1), Arg(2), Arg(3), Arg(4))


(***************************************************************************)
(* The summary calculateSummary returns, field against field.              *)
(***************************************************************************)
\* C27: in every summary calculateSummary returns, for any goal list, the
\* returned wealth gain is max(0, returned totalFutureValue - returned
\* totalInvested).
C27_SummaryConsistency ==
    Returned("calculateSummary")
    => ret.totalWealthGained
           = MathMax(Zero, Sub(ret.totalFutureValue, ret.totalInvested))


(***************************************************************************)
(* calculateTotalInvestment against the evaluator at a 0 % return.         *)
(***************************************************************************)
\* C30: for every initial contribution s, every years > 0, fractional values
\* included, and every stepUpRate >= 0, 0 included,
\* calculateTotalInvestment(s, years, stepUpRate) is
\* calculateStepUpFutureValue(s, years, 0, stepUpRate).
C30_NominalTotalMirrorsEvaluator ==
    (Returned("calculateTotalInvestment")
        /\ IsFinite(Arg(2)) /\ Positive(Arg(2)) /\ NonNegative(Arg(3)))
        => ret = calculateStepUpFutureValue(Arg(1), Arg(2), Zero, Arg(3))


(***************************************************************************)
(* MultiGoalSIPApp and UIRenderer.getFormValues (src/js/ui.js): the page   *)
(* after its constructor, one GoalManager over a StorageService.  Each     *)
(* action is one event handler run to its end (or to its await); gmCall    *)
(* names the handler and what it was given.  A goal's name is the sequence *)
(* of its characters, the value of an input the sequence typed into it.    *)
(***************************************************************************)
\* the values of the six inputs of the form
Form(goalName, price, inflation, timePeriod, return, stepUp) ==
    [goalName |-> goalName, currentPrice |-> price,
     inflationRate |-> inflation, timePeriod |-> timePeriod,
     expectedReturn |-> return, stepUpRate |-> stepUp]

\* v || 0
OrZero(v) == IF ~IsNumber(v) THEN Zero ELSE IF Falsy(v) THEN Zero ELSE v

\* ui.js lines 133-157
getFormValues(form) ==
    LET goalName == Trim(form.goalName)
        currentPrice == parseFloat(form.currentPrice)
        inflationRate == parseFloat(form.inflationRate)
        timePeriod == parseFloat(form.timePeriod)
        expectedReturn == parseFloat(form.expectedReturn)
        stepUpRate == OrZero(parseFloat(form.stepUpRate))
    IN  IF goalName = <<>> THEN Null
        ELSE IF Le(currentPrice, Zero) THEN Null
        ELSE IF Lt(inflationRate, Zero) THEN Null
        ELSE IF Le(timePeriod, Zero) THEN Null
        ELSE IF Le(expectedReturn, Zero) THEN Null
        ELSE IF Lt(stepUpRate, Zero) THEN Null
        ELSE [name |-> goalName, currentPrice |-> currentPrice,
              inflationRate |-> inflationRate, years |-> timePeriod,
              expectedReturn |-> expectedReturn, stepUpRate |-> stepUpRate]

\* a form filled in completely, and the same form with one input changed:
\* left empty, blank, not positive or negative
FilledForm ==
    Form(<<"C", "a", "r">>, NumberToString(Num(100)), NumberToString(Num(7)),
         NumberToString(Num(10)), NumberToString(Num(12)),
         NumberToString(Num(5)))
Forms ==
    {FilledForm}
    \cup {[FilledForm EXCEPT !.goalName = x] :
             x \in {<<>>, <<" ">>, <<" ", "C", "a", "r", " ">>}}
    \cup {[FilledForm EXCEPT !.currentPrice = x] :
             x \in {<<>>, NumberToString(Zero), NumberToString(Num(-5))}}
    \cup {[FilledForm EXCEPT !.inflationRate = x] :
             x \in {<<>>, NumberToString(Num(-1))}}
    \cup {[FilledForm EXCEPT !.timePeriod = x] :
             x \in {<<>>, NumberToString(Zero)}}
    \cup {[FilledForm EXCEPT !.expectedReturn = x] : x \in {<<>>}}
    \cup {[FilledForm EXCEPT !.stepUpRate = x] :
             x \in {<<>>, NumberToString(Num(-2))}}

\* parseInt(s): leading whitespace, a sign and digits; NaN without a digit
parseInt(s) ==
    LET t == TrimStart(s)
        signed == t # <<>> /\ Head(t) \in {"-", "+"}
        negative == t # <<>> /\ Head(t) = "-"
        whole == DigitRun(IF signed THEN Tail(t) ELSE t)
    IN  IF whole = <<>> THEN NaN
        ELSE IF negative THEN Num(0 - DigitsValue(whole, 0))
        ELSE Num(DigitsValue(whole, 0))

\* ui.js lines 191-211: the page as its constructor leaves it, nothing
\* stored yet; storageFails is "localStorage throws on access"
PageInit ==
    /\ pc = "page"
    /\ call = CallOf("none", <<>>)
    /\ ret = Zero
    /\ low = Zero /\ high = Zero /\ initialSIP = Zero /\ iters = 0
    /\ goals = <<>> /\ idx = 0
    /\ totalSIP = Zero /\ totalFutureValue = Zero /\ totalInvested = Zero
    /\ gmGoals = Arr(<<>>)
    /\ storageService = RealService
    /\ localStorage = Null
    /\ storageFails \in BOOLEAN
    /\ gmCall = CallOf("constructor", <<>>)
    /\ gmRet = Undefined
    /\ UIInit

pageFrame ==
    <<engineVars, themeVars, chart, storageService, storageFails>>

MaxShown == 1       \* the form is submitted while fewer than MaxShown goals are shown

\* ui.js lines 391-409, the form holding what the user typed
HandleAddGoal ==
    /\ pc = "page"
    /\ Len(gmGoals.array) < MaxShown
    /\ \E form \in Forms, now \in 1 .. MaxClock :
          LET formValues == getFormValues(form)
              added == addGoal(Manager, now, formValues)
          IN  /\ gmCall' = CallOf("handleAddGoal", <<form>>)
              /\ gmRet' = Undefined
              /\ IF formValues = Null
                 THEN gmGoals' = gmGoals /\ localStorage' = localStorage
                 ELSE gmGoals' = added.goals /\ localStorage' = added.item
    /\ UNCHANGED <<pageFrame, pendingImport>>

\* ui.js lines 416-427: a click on the remove button of a goal card, whose
\* data-id attribute is the goal's id written out
HandleRemoveGoal ==
    /\ pc = "page"
    /\ \E k \in 1 .. Len(gmGoals.array) :
          LET goalId == parseInt(NumberToString(gmGoals.array[k].id))
              removed == removeGoal(Manager, goalId)
          IN  /\ gmCall' = CallOf("handleRemoveGoal", <<goalId>>)
              /\ gmRet' = Undefined
              /\ gmGoals' = removed.goals
              /\ localStorage' = removed.item
    /\ UNCHANGED <<pageFrame, pendingImport>>

\* ui.js lines 432-443
HandleClearAll ==
    /\ pc = "page"
    /\ \E confirmed \in BOOLEAN :
          /\ gmCall' = CallOf("handleClearAll", <<[bool |-> confirmed]>>)
          /\ gmRet' = Undefined
          /\ IF gmGoals.array = <<>> \/ ~confirmed
             THEN gmGoals' = gmGoals /\ localStorage' = localStorage
             ELSE /\ gmGoals' = clearAllGoals(Manager).goals
                  /\ localStorage' = clearAllGoals(Manager).item
    /\ UNCHANGED <<pageFrame, pendingImport>>


\* toLowerCase, for the letters of the file names drawn
ToLowerCase(s) ==
    [k \in 1 .. Len(s) |->
        CASE s[k] = "C" -> "c" [] s[k] = "S" -> "s" [] s[k] = "V" -> "v"
          [] OTHER -> s[k]]

\* ui.js line 536: file.name.split('.').pop().toLowerCase()
fileExtension(name) ==
    LET parts == Split(name, ".") IN ToLowerCase(parts[Len(parts)])

CSVExtension == <<"c", "s", "v">>
JSONExtension == <<"j", "s", "o", "n">>

\* a file the user picks: its name and the text FileReader reads from it
File(name, content) == [name |-> name, content |-> content]

\* one data line of a CSV file
CSVLine(name, currentPrice_, years) ==
    Join(<<name, NumberToString(currentPrice_), NumberToString(Num(7)),
           NumberToString(years), NumberToString(Num(12))>>, ",")
\* a CSV text: the header line and the data lines
CSVText(dataLines) ==
    Str(Join(<<Join(Headers, ",")>> \o dataLines, "\n"))
\* an entry of a JSON file, as exportToJSON writes it
JSONGoal(name, currentPrice_, years) ==
    [id |-> One, name |-> name, currentPrice |-> currentPrice_, inflationRate |-> Num(7),
     years |-> years, expectedReturn |-> Num(12), stepUpRate |-> Num(5)]

CarLine == CSVLine(<<"C", "a", "r">>, Num(100), Num(10))
\* files that parse, files whose second entry fails validation or has too
\* few cells, a file without data, texts that are not JSON or not an array,
\* and a file of another format
ImportFiles ==
    { File(<<"g", ".", "c", "s", "v">>, CSVText(<<CarLine>>)),
      File(<<"G", ".", "C", "S", "V">>,
           CSVText(<<CarLine, CSVLine(<<"a">>, Frac(201, 2), One)>>)),
      File(<<"g", ".", "c", "s", "v">>,
           CSVText(<<CarLine, CSVLine(<<"b">>, Num(-5), Num(10))>>)),
      File(<<"g", ".", "c", "s", "v">>,
           CSVText(<<CarLine, Join(<<<<"b">>, NumberToString(One)>>, ",")>>)),
      File(<<"g", ".", "c", "s", "v">>, CSVText(<<>>)),
      File(<<"g", ".", "j", "s", "o", "n">>,
           Text(Arr(<<JSONGoal(<<"C", "a", "r">>, Num(100), Num(10))>>))),
      File(<<"g", ".", "j", "s", "o", "n">>,
           Text(Arr(<<JSONGoal(<<"C", "a", "r">>, Num(100), Num(10)),
                      JSONGoal(<<"b">>, Num(100), Zero)>>))),
      File(<<"g", ".", "j", "s", "o", "n">>, Text(Arr(<<>>))),
      File(<<"g", ".", "j", "s", "o", "n">>, InvalidText),
      File(<<"g", ".", "j", "s", "o", "n">>, NotArrayText),
      File(<<"g", ".", "t", "x", "t">>, CSVText(<<CarLine>>)) }

\* app.js lines 843-877: importCSV / importJSON once the read has ended;
\* readFails is "the FileReader reports an error"
importFile(file, now, readFails) ==
    IF readFails THEN ImportError
    ELSE IF fileExtension(file.name) = CSVExtension
    THEN parseCSV(file.content.string, now)
    ELSE parseJSON(file.content, now)

\* ui.js lines 566-575: the forEach over the imported goals; the locals are
\* kept in a record [m, k], m the manager and k the next goal
RECURSIVE AddImported(_, _, _)
AddImported(st, importedGoals, nows) ==
    IF st.k > Len(importedGoals) THEN st.m
    ELSE LET goal == importedGoals[st.k]
             added == addGoal(st.m, nows[st.k],
                          [name |-> goal.name,
                           currentPrice |-> goal.currentPrice,
                           inflationRate |-> goal.inflationRate,
                           years |-> goal.years,
                           expectedReturn |-> goal.expectedReturn,
                           stepUpRate |-> OrZero(Field(goal, "stepUpRate"))])
         IN  AddImported([m |-> [st.m EXCEPT !.goals = added.goals,
                                             !.item = added.item],
                          k |-> st.k + 1],
                         importedGoals, nows)

\* handleImport after its await with the goals cleared before the result of
\* the import is looked at
importInto_clearedFirst(m, importedGoals, nows, action) ==
    LET cleared == clearAllGoals(m)
    IN  IF importedGoals = ImportError
        THEN [goals |-> cleared.goals, item |-> cleared.item,
              ret |-> ImportError]
        ELSE [goals |-> cleared.goals, item |-> cleared.item,
              ret |-> importedGoals]

\* ui.js lines 537-590, handleImport after its await: importedGoals is what
\* the import gave (ImportError: it threw), action what confirm() returns,
\* nows what Date.now() returns in the calls of addGoal
importInto(m, importedGoals, nows, action) ==
    IF importedGoals = ImportError
    THEN [goals |-> m.goals, item |-> m.item, ret |-> ImportError]
    ELSE IF importedGoals.array = <<>>
    THEN [goals |-> m.goals, item |-> m.item, ret |-> importedGoals]
    ELSE LET cleared == clearAllGoals(m)
             start == IF Len(m.goals.array) > 0 /\ ~action
                      THEN [m EXCEPT !.goals = cleared.goals,
                                     !.item = cleared.item]
                      ELSE m
             final == AddImported([m |-> start, k |-> 1],
                                  importedGoals.array, nows)
         IN  [goals |-> final.goals, item |-> final.item,
              ret |-> importedGoals]

\* ui.js lines 527-545: handleImport up to its await.  Without a file, and
\* with a file of another format, the handler ends here.
HandleImport ==
    /\ pc = "page"
    /\ pendingImport = Null
    /\ \E file \in ImportFiles \cup {Undefined} :
          /\ gmCall' = CallOf("handleImport", <<file>>)
          /\ IF file = Undefined
             THEN pendingImport' = Null /\ gmRet' = Undefined
             ELSE IF fileExtension(file.name) \in {CSVExtension, JSONExtension}
             THEN pendingImport' = file /\ gmRet' = Undefined
             ELSE pendingImport' = Null /\ gmRet' = ImportError
    /\ UNCHANGED <<pageFrame, gmGoals, localStorage>>

\* ui.js lines 537-590: handleImport from its await on, the file read; the
\* import is followed while no more than MaxHeld goals come to be held
HandleImportResume ==
    /\ pc = "page"
    /\ pendingImport # Null
    /\ \E readFails \in BOOLEAN, action \in BOOLEAN, now1 \in 1 .. MaxClock :
          \E now2 \in now1 .. MaxClock :
             LET importedGoals == importFile(pendingImport, now1, readFails)
                 imported == importInto(Manager, importedGoals,
                                        <<now1, now2>>, action)
             IN  /\ Len(imported.goals.array) <= MaxHeld
                 /\ gmCall' = CallOf("handleImport", <<pendingImport>>)
                 /\ gmRet' = imported.ret
                 /\ gmGoals' = imported.goals
                 /\ localStorage' = imported.item
    /\ pendingImport' = Null
    /\ UNCHANGED pageFrame

PageNext ==
    \/ HandleAddGoal
    \/ HandleRemoveGoal
    \/ HandleClearAll
    \/ HandleImport
    \/ HandleImportResume

PageSpec == PageInit /\ [][PageNext]_vars

(***************************************************************************)
(* The form and the import of the page.                                    *)
(***************************************************************************)
\* the conditions of the form on a goal
PassesGate(goal) ==
    /\ goal.name # <<>>
    /\ Gt(goal.currentPrice, Zero) /\ Ge(goal.inflationRate, Zero)
    /\ Gt(goal.years, Zero) /\ Gt(goal.expectedReturn, Zero)
    /\ Ge(goal.stepUpRate, Zero)

\* C28: getFormValues returns null unless the name is not empty and
\* currentPrice > 0, inflationRate >= 0, years > 0, expectedReturn > 0 and
\* stepUpRate >= 0 hold, which an empty or unparseable numeric input does
\* not satisfy; hence every goal handleAddGoal adds to the GoalManager
\* satisfies them.
C28_FormValidationGate ==
    [][gmCall'.op = "handleAddGoal"
          => /\ getFormValues(gmCall'.args[1]) # Null
                    => PassesGate(getFormValues(gmCall'.args[1]))
             /\ gmGoals' # gmGoals
                    => PassesGate(gmGoals'.array[Len(gmGoals'.array)])]_vars

\* C29: a failed import is atomic: when the file is of an unsupported
\* format, cannot be read, or holds a line or entry that fails parsing or
\* validation, handleImport adds no goal and removes none: neither of its
\* steps changes the goal collection or the stored goals, whatever add and
\* remove events were handled while the read was pending.
C29_FailedImportAtomic ==
    [][(gmCall'.op = "handleImport" /\ gmRet' = ImportError)
          => gmGoals' = gmGoals /\ localStorage' = localStorage]_vars

\* an import failed on its second entry, behind a valid one, the page
\* holding a goal
C29_Witness ==
    /\ pc = "page" /\ gmCall.op = "handleImport" /\ gmRet = ImportError
    /\ pendingImport = Null
    /\ gmCall.args[1].content
           = CSVText(<<CarLine, CSVLine(<<"b">>, Num(-5), Num(10))>>)
    /\ gmGoals.array # <<>>

=============================================================================
